---- MODULE Spec2Model ----
(***************************************************************************)
(* Central-directory peer-to-peer file sharing (Assignment1/bklv-backend). *)
(*                                                                         *)
(*   Registry service   server.py  handle_conn / cleanup_thread            *)
(*   Heartbeat control  optimizations/adaptive_heartbeat.py                *)
(*   Peer download      client.py  Client.download_from_peer,              *)
(*                      optimizations/fetch_manager.py  FetchSession       *)
(*                                                                         *)
(* Python values are encoded as follows: None / a missing or empty string  *)
(* is NoName, a missing or zero port is 0, a None timestamp is NoTime, a   *)
(* dict is a function whose DOMAIN is its key set.  The insertion order of *)
(* the registry dict, which REQUEST iterates, is kept in registryOrder.    *)
(***************************************************************************)
EXTENDS Integers, Sequences, FiniteSets, TLC

\* ------------------------------------------------------------------ bounds
MaxTime == 1230          \* the clock stops advancing after this many seconds
MaxSweepTime == 1290     \* the same for the clock of the timed sweep
MaxHbTime == 600         \* the same for the clock of the heartbeat controller
MaxHeartbeats == 2       \* cap of total_heartbeats
MaxStateChanges == 4     \* cap of the length of the state_changes log
MaxSize == 2             \* largest file size, in bytes, a download deals with
MaxLiveTime == 1560      \* the same for the clock of the live client
MaxSent == 3             \* messages a client writes to one control connection
MaxDownloads == 2        \* download threads of one client

\* ------------------------------------------------- configuration constants
CLIENT_CLEANUP_INTERVAL == 30
CLIENT_INACTIVE_TIMEOUT == 1200
IDLE_INTERVAL == 300
ACTIVE_INTERVAL == 60
BUSY_INTERVAL == 30
IDLE_THRESHOLD == 300
LARGE_FILE == 10485760   \* 10*1024*1024: above it a download uses a session
CHUNK_SIZE == 262144     \* 256*1024: what the peer server reads at a time
ErrorLineLen == 18       \* len(b"ERROR interrupted\n")

\* --------------------------------------------------------- input universes
Hosts     == {"A", "B"}
Files     == {"f", "g"}
Conns     == {1}
NoName    == ""          \* None, a missing key or the empty string (all falsy)
NoTime    == -1          \* None in a timestamp field
PeerPort  == 6000        \* the peer-listen port clients announce in REGISTER

ConnIP(c)      == IF c = 1 THEN "10.0.0.1" ELSE "10.0.0.2"
ConnSrcPort(c) == 50000 + c      \* ephemeral source port of the control socket

Statuses == {"OK", "ACK", "ERROR", "FOUND", "NOTFOUND", "ALIVE", "DEAD"}
NoStatus == "NONE"       \* nothing was written to the connection

VARIABLES
    registry,        \* server.py registry: hostname -> HostRecord
    registryOrder,   \* insertion order of the keys of registry
    connOpen,        \* per control connection: handle_conn is running
    connHost,        \* per control connection: handle_conn's local `hostname`
    now,             \* time.time()
    sweepPc,         \* cleanup_thread: "sleep" | "sampled"
    sweepWake,       \* cleanup_thread: time at which time.sleep returns
    sweepNow,        \* cleanup_thread: its local `now`
    reply,           \* the message just handled and the response written to
                     \* the connection, until the client has read it
    \* history variables, written only by the specifications that use them
    registered,      \* hosts whose latest successful REGISTER was not yet
                     \* followed by an UNREGISTER or an eviction of the host
    pubHist,         \* per (host, file): what PUBLISH / UNPUBLISH did last
    evicted,         \* hosts the sweep removed and that have not sent a
                     \* REGISTER or PUBLISH since
    wire,            \* one control connection as a byte stream: the messages
                     \* in the socket, and those sent and handled so far
    downloads,       \* the download threads that are inside download_from_peer
    \* AdaptiveHeartbeat (adaptive_heartbeat.py)
    hbState,         \* self.state: "idle" | "active" | "busy" | "offline"
    last_activity,   \* self.last_activity
    last_heartbeat,  \* self.last_heartbeat
    total_heartbeats,\* self.total_heartbeats
    state_changes,   \* self.state_changes, as <<from, to>> pairs
    hbCall,          \* the method the last step called and what it returned
    \* one peer download: fetch_file / Client.download_from_peer
    peer,            \* what the serving peer answers to GET on this connection
    sess,            \* the FetchSession of the download (fetch_manager.py)
    sessCall,        \* the FetchSession method called last and what it returned
    dl,              \* download_from_peer: its position and its locals
    \* one client: its file sets, what it persists, and its peer server
    local_files,     \* Client.local_files: fname -> FileMetadata
    published_files, \* Client.published_files: fname -> FileMetadata
    meta_files,      \* <repo_dir>/<fname>.meta.json: fname -> saved to_dict()
    state_file,      \* <repo_dir>/.client_state.json: fname -> is_published
    disk,            \* the file system: path -> kind and length of the file
    running,         \* Client.running
    serve,           \* PeerServer.handle_peer on one peer connection
    cliCall,         \* the Client method called last, and on which fname
    hbThread         \* Client.heartbeat_thread: its position and the time
                     \* its time.sleep(interval) ends

regVars  == <<registry, registryOrder, connOpen, connHost, now,
              sweepPc, sweepWake, sweepNow, reply>>
regState == <<registry, registryOrder, connOpen, connHost,
              sweepPc, sweepWake, sweepNow, reply>>
histVars == <<registered, pubHist, evicted, wire, downloads>>
hbVars   == <<hbState, last_activity, last_heartbeat, total_heartbeats,
              state_changes, hbCall>>

dlVars   == <<peer, sess, sessCall, dl>>

cliVars  == <<local_files, published_files, meta_files, state_file, disk,
              running, serve, cliCall, hbThread>>

vars == <<regVars, histVars, hbVars, dlVars, cliVars>>

EmptyDict == [k \in {} |-> 0]
Get(d, k, default) == IF k \in DOMAIN d THEN d[k] ELSE default
\* an assignment that keeps the value of a key the dict already has
PutIfAbsent(d, k, v) == [x \in (DOMAIN d) \cup {k} |-> Get(d, x, v)]
Put(d, k, v) == [x \in (DOMAIN d) \cup {k} |-> IF x = k THEN v ELSE d[x]]
\* a pop that removes nothing
PopNothing(d, k) == d
Pop(d, k) == [x \in (DOMAIN d) \ {k} |-> d[x]]

\* dict order: assigning an existing key keeps its position, a new key is last
\* an assignment that moves an existing key to the end
OrderPutLast(order, k) == Append(SelectSeq(order, LAMBDA x : x # k), k)
OrderPut(order, k) ==
    IF \E i \in 1..Len(order) : order[i] = k THEN order ELSE Append(order, k)
OrderPop(order, k) == SelectSeq(order, LAMBDA x : x # k)

NoReply == [conn |-> 0, msg |-> [action |-> "-"], status |-> NoStatus,
            body |-> EmptyDict]
Reply(c, m, st, b) == [conn |-> c, msg |-> m, status |-> st, body |-> b]

\* ------------------------------------------ the client's files, its server
\* "p" is a file of the user, named f; "r" is <repo_dir>/g, where a download
\* of g is saved
Paths        == {"p", "r"}
RepoPath     == "r"
DownloadName == "g"
Basename(path) == IF path = "p" THEN "f" ELSE "g"

\* kinds of what is at a path: a readable regular file, a regular file
\* without read permission, a directory, nothing
DiskKinds == {"file", "unreadable", "dir", "missing"}
NoFile == [kind |-> "missing", len |-> 0]

\* FileMetadata, reduced to the fields the file sets and the peer server use
FileMetadata(path, is_published) ==
    [path |-> path, is_published |-> is_published]

\* PeerServer.handle_peer on one connection:
\* pc: "idle" | "validated" | "sized" | "streaming" | "closed"
\* header / size: the first line written and the n of LENGTH n
\* sent: file bytes written after the header; errors: ERROR lines written
\* aborted: the handler left through `except` or the shutdown test
\* detached / ilen: the open handle reads a file that is no longer at path,
\*   and the length of that file
\* at_lookup: whether fname was in published_files and what was at its path
\*   when the handler looked fname up
NoServe == [pc |-> "idle", fname |-> NoName, path |-> NoName, header |-> "-",
            size |-> 0, sent |-> 0, errors |-> 0, aborted |-> FALSE,
            detached |-> FALSE, ilen |-> 0,
            at_lookup |-> [published |-> FALSE, kind |-> "-"]]

\* ------------------------------------------------------------------- REGISTER
SeedFiles(files_metadata) ==
    [fname \in DOMAIN files_metadata |->
        [size         |-> Get(files_metadata[fname], "size", 0),
         modified     |-> Get(files_metadata[fname], "modified", 0),
         published_at |-> Get(files_metadata[fname], "published_at", NoTime),
         is_published |-> Get(files_metadata[fname], "is_published", FALSE)]]

\* a REGISTER that does not test the port
RegisterAnyPort(c, hostname, port, display_name, files_metadata) ==
    /\ reply = NoReply
    /\ connOpen[c]
    /\ connHost' = [connHost EXCEPT ![c] = hostname]
    /\ LET m == [action |-> "REGISTER", hostname |-> hostname, port |-> port,
                 display_name |-> display_name,
                 files_metadata |-> files_metadata]
       IN  IF hostname # NoName
           THEN /\ registry' = Put(registry, hostname,
                       [addr         |-> <<ConnIP(c), port>>,
                        display_name |-> IF display_name = NoName
                                         THEN hostname ELSE display_name,
                        files        |-> SeedFiles(files_metadata),
                        last_seen    |-> now,
                        connected_at |-> now])
                /\ registryOrder' = OrderPut(registryOrder, hostname)
                /\ reply' = Reply(c, m, "OK", EmptyDict)
           ELSE /\ UNCHANGED <<registry, registryOrder>>
                /\ reply' = Reply(c, m, "ERROR", EmptyDict)
    /\ UNCHANGED <<connOpen, now, sweepPc, sweepWake, sweepNow>>

Register(c, hostname, port, display_name, files_metadata) ==
    /\ reply = NoReply
    /\ connOpen[c]
    /\ connHost' = [connHost EXCEPT ![c] = hostname]
    /\ LET m == [action |-> "REGISTER", hostname |-> hostname, port |-> port,
                 display_name |-> display_name,
                 files_metadata |-> files_metadata]
       IN  IF hostname # NoName /\ port # 0
           THEN /\ registry' = Put(registry, hostname,
                       [addr         |-> <<ConnIP(c), port>>,
                        display_name |-> IF display_name = NoName
                                         THEN hostname ELSE display_name,
                        files        |-> SeedFiles(files_metadata),
                        last_seen    |-> now,
                        connected_at |-> now])
                /\ registryOrder' = OrderPut(registryOrder, hostname)
                /\ reply' = Reply(c, m, "OK", EmptyDict)
           ELSE /\ UNCHANGED <<registry, registryOrder>>
                /\ reply' = Reply(c, m, "ERROR", EmptyDict)
    /\ UNCHANGED <<connOpen, now, sweepPc, sweepWake, sweepNow>>

\* REGISTER whose files_metadata holds, next to the entries of files_metadata,
\* an entry `bad` that is not an object: meta.get raises inside the seeding
\* loop after the record was stored and the entries that precede `bad` in the
\* message (before) were copied; handle_conn closes without a response
RegisterRaises(c, hostname, port, display_name, files_metadata, bad, before) ==
    /\ reply = NoReply
    /\ connOpen[c]
    /\ hostname # NoName /\ port # 0
    /\ bad \notin DOMAIN files_metadata
    /\ before \subseteq DOMAIN files_metadata
    /\ connOpen' = [connOpen EXCEPT ![c] = FALSE]
    /\ connHost' = [connHost EXCEPT ![c] = NoName]
    /\ registry' = Put(registry, hostname,
            [addr         |-> <<ConnIP(c), port>>,
             display_name |-> IF display_name = NoName
                              THEN hostname ELSE display_name,
             files        |-> SeedFiles([fname \in before |->
                                            files_metadata[fname]]),
             last_seen    |-> now,
             connected_at |-> now])
    /\ registryOrder' = OrderPut(registryOrder, hostname)
    /\ reply' = Reply(c, [action |-> "REGISTER", hostname |-> hostname,
                          port |-> port, display_name |-> display_name,
                          files_metadata |-> files_metadata, bad |-> bad],
                      NoStatus, EmptyDict)
    /\ UNCHANGED <<now, sweepPc, sweepWake, sweepNow>>

\* -------------------------------------------------------------------- PUBLISH
Publish(c, hostname, fname, file_size, file_modified) ==
    /\ reply = NoReply
    /\ connOpen[c]
    /\ connHost' = [connHost EXCEPT ![c] = hostname]
    /\ LET m == [action |-> "PUBLISH", hostname |-> hostname, fname |-> fname,
                 size |-> file_size, modified |-> file_modified]
           base == IF hostname \in DOMAIN registry
                   THEN registry[hostname]
                   ELSE [addr         |-> <<ConnIP(c), ConnSrcPort(c)>>,
                         display_name |-> hostname,
                         files        |-> EmptyDict,
                         last_seen    |-> now,
                         connected_at |-> now]
           entry == [size         |-> file_size,
                     modified     |-> IF file_modified = NoTime
                                      THEN now ELSE file_modified,
                     published_at |-> now,
                     is_published |-> TRUE]
       IN  IF hostname = NoName
           THEN /\ UNCHANGED <<registry, registryOrder>>
                /\ reply' = Reply(c, m, "ERROR", EmptyDict)
           ELSE /\ registry' = Put(registry, hostname,
                       [base EXCEPT !.files = Put(base.files, fname, entry),
                                    !.last_seen = now])
                /\ registryOrder' = OrderPut(registryOrder, hostname)
                /\ reply' = Reply(c, m, "ACK", EmptyDict)
    /\ UNCHANGED <<connOpen, now, sweepPc, sweepWake, sweepNow>>

\* ------------------------------------------------------------------ UNPUBLISH
\* an UNPUBLISH that deletes the entry
UnpublishDeletes(c, hostname, fname) ==
    /\ reply = NoReply
    /\ connOpen[c]
    /\ connHost' = [connHost EXCEPT ![c] = hostname]
    /\ LET m == [action |-> "UNPUBLISH", hostname |-> hostname,
                 fname |-> fname]
       IN  IF /\ hostname # NoName
              /\ fname # NoName
              /\ hostname \in DOMAIN registry
              /\ fname \in DOMAIN registry[hostname].files
           THEN /\ registry' =
                     [registry EXCEPT
                        ![hostname].files = Pop(registry[hostname].files,
                                                fname),
                        ![hostname].last_seen = now]
                /\ reply' = Reply(c, m, "ACK", EmptyDict)
           ELSE /\ UNCHANGED registry
                /\ reply' = Reply(c, m, "ERROR", EmptyDict)
    /\ UNCHANGED <<registryOrder, connOpen, now, sweepPc, sweepWake, sweepNow>>

Unpublish(c, hostname, fname) ==
    /\ reply = NoReply
    /\ connOpen[c]
    /\ connHost' = [connHost EXCEPT ![c] = hostname]
    /\ LET m == [action |-> "UNPUBLISH", hostname |-> hostname,
                 fname |-> fname]
       IN  IF hostname = NoName \/ fname = NoName
           THEN /\ UNCHANGED registry
                /\ reply' = Reply(c, m, "ERROR", EmptyDict)
           ELSE IF /\ hostname \in DOMAIN registry
                   /\ fname \in DOMAIN registry[hostname].files
                THEN /\ registry' =
                          [registry EXCEPT
                             ![hostname].files[fname].is_published = FALSE,
                             ![hostname].files[fname].published_at = NoTime,
                             ![hostname].last_seen = now]
                     /\ reply' = Reply(c, m, "ACK", EmptyDict)
                ELSE /\ UNCHANGED registry
                     /\ reply' = Reply(c, m, "ERROR", EmptyDict)
    /\ UNCHANGED <<registryOrder, connOpen, now, sweepPc, sweepWake, sweepNow>>

\* -------------------------------------------------------------------- REQUEST
RECURSIVE ScanHosts(_, _, _)
ScanHosts(reg, order, fname) ==
    IF order = <<>> THEN <<>>
    ELSE LET h    == Head(order)
             info == reg[h]
             rest == ScanHosts(reg, Tail(order), fname)
         IN  IF /\ fname \in DOMAIN info.files
                /\ info.files[fname].is_published
             THEN <<[hostname     |-> h,
                     display_name |-> info.display_name,
                     ip           |-> info.addr[1],
                     port         |-> info.addr[2],
                     size         |-> info.files[fname].size,
                     modified     |-> info.files[fname].modified,
                     is_published |-> TRUE]>> \o rest
             ELSE rest

\* a scan that visits every host twice
RequestHostsTwice(fname) ==
    ScanHosts(registry, registryOrder \o registryOrder, fname)
RequestHosts(fname) == ScanHosts(registry, registryOrder, fname)

Request(c, fname) ==
    /\ reply = NoReply
    /\ connOpen[c]
    /\ LET m == [action |-> "REQUEST", fname |-> fname]
           hosts == RequestHosts(fname)
       IN  IF fname # NoName
           THEN reply' = Reply(c, m, IF hosts # <<>> THEN "FOUND"
                                     ELSE "NOTFOUND", [hosts |-> hosts])
           ELSE reply' = Reply(c, m, "ERROR", EmptyDict)
    /\ UNCHANGED <<registry, registryOrder, connOpen, connHost, now,
                   sweepPc, sweepWake, sweepNow>>

\* ------------------------------------------------------------------- DISCOVER
\* no is_published filter
EveryFile(info) == info.files
PublishedFiles(info) ==
    [fname \in {x \in DOMAIN info.files : info.files[x].is_published} |->
        info.files[fname]]

Discover(c, hname) ==
    /\ reply = NoReply
    /\ connOpen[c]
    /\ LET m == [action |-> "DISCOVER", hostname |-> hname]
       IN  IF hname \in DOMAIN registry
           THEN reply' = Reply(c, m, "OK",
                              [files |-> PublishedFiles(registry[hname]),
                               addr  |-> registry[hname].addr])
           ELSE reply' = Reply(c, m, "ERROR", EmptyDict)
    /\ UNCHANGED <<registry, registryOrder, connOpen, connHost, now,
                   sweepPc, sweepWake, sweepNow>>

\* ----------------------------------------------------------------------- PING
\* a refresh that puts the record of an evicted caller back
PingRestoresCaller(c) ==
    IF connHost[c] = NoName THEN registry
    ELSE IF connHost[c] \in DOMAIN registry
    THEN [registry EXCEPT ![connHost[c]].last_seen = now]
    ELSE Put(registry, connHost[c],
             [addr |-> <<ConnIP(c), PeerPort>>, display_name |-> connHost[c],
              files |-> EmptyDict, last_seen |-> now, connected_at |-> now])
\* the registry after a PING: last_seen of the connection's hostname is
\* refreshed when that host has a record
PingRefresh(c) ==
    IF connHost[c] # NoName /\ connHost[c] \in DOMAIN registry
    THEN [registry EXCEPT ![connHost[c]].last_seen = now]
    ELSE registry

\* a PING that refreshes the target instead of the caller
PingRefreshesTarget(c, target) ==
    /\ reply = NoReply
    /\ connOpen[c]
    /\ LET m == [action |-> "PING", hostname |-> target]
       IN  /\ registry' =
                IF target \in DOMAIN registry
                THEN [registry EXCEPT ![target].last_seen = now]
                ELSE registry
           /\ reply' = Reply(c, m, IF target \in DOMAIN registry
                                   THEN "ALIVE" ELSE "DEAD", EmptyDict)
    /\ UNCHANGED <<registryOrder, connOpen, connHost, now,
                   sweepPc, sweepWake, sweepNow>>

Ping(c, target) ==
    /\ reply = NoReply
    /\ connOpen[c]
    /\ LET m == [action |-> "PING", hostname |-> target]
       IN  /\ registry' = PingRefresh(c)
           /\ reply' = Reply(c, m, IF target \in DOMAIN registry
                                   THEN "ALIVE" ELSE "DEAD", EmptyDict)
    /\ UNCHANGED <<registryOrder, connOpen, connHost, now,
                   sweepPc, sweepWake, sweepNow>>

\* ----------------------------------------------------------------- UNREGISTER
Unregister(c, hname) ==
    /\ reply = NoReply
    /\ connOpen[c]
    /\ LET m == [action |-> "UNREGISTER", hostname |-> hname]
       IN  IF hname # NoName
           THEN /\ registry' = Pop(registry, hname)
                /\ registryOrder' = OrderPop(registryOrder, hname)
                /\ reply' = Reply(c, m, "OK", EmptyDict)
           ELSE /\ UNCHANGED <<registry, registryOrder>>
                /\ reply' = Reply(c, m, "ERROR", EmptyDict)
    /\ UNCHANGED <<connOpen, connHost, now, sweepPc, sweepWake, sweepNow>>

\* ----------------------------------------------------------------------- LIST
ListSnapshot ==
    [h \in DOMAIN registry |->
        [addr         |-> registry[h].addr,
         display_name |-> registry[h].display_name,
         files        |-> PublishedFiles(registry[h]),
         last_seen    |-> registry[h].last_seen,
         connected_at |-> registry[h].connected_at]]

List(c) ==
    /\ reply = NoReply
    /\ connOpen[c]
    /\ reply' = Reply(c, [action |-> "LIST"], "OK",
                      [registry |-> ListSnapshot])
    /\ UNCHANGED <<registry, registryOrder, connOpen, connHost, now,
                   sweepPc, sweepWake, sweepNow>>

\* ------------------------------------------- unknown action, broken messages
\* an object whose action is missing or not one of the eight known actions
UnknownAction(c) ==
    /\ reply = NoReply
    /\ connOpen[c]
    /\ reply' = Reply(c, [action |-> "UNKNOWN"], "ERROR", EmptyDict)
    /\ UNCHANGED <<registry, registryOrder, connOpen, connHost, now,
                   sweepPc, sweepWake, sweepNow>>

\* handle_conn leaves its loop without a response and closes the connection:
\*   "malformed"  json.loads raises on the line
\*   "empty"      the line decodes to {} (or another falsy value): `not msg`
\*   "baddata"    a known action other than LIST whose data is not an object:
\*                data.get raises
\*   "eof"        recv returned b'': the client closed the connection
DropKinds == {"malformed", "empty", "baddata", "eof"}

\* a close that also forgets the host of the connection
DropForgetsHost(c, kind) ==
    /\ reply = NoReply
    /\ connOpen[c]
    /\ connOpen' = [connOpen EXCEPT ![c] = FALSE]
    /\ connHost' = [connHost EXCEPT ![c] = NoName]
    /\ registry' = Pop(registry, connHost[c])
    /\ registryOrder' = OrderPop(registryOrder, connHost[c])
    /\ reply' = Reply(c, [action |-> kind], NoStatus, EmptyDict)
    /\ UNCHANGED <<now, sweepPc, sweepWake, sweepNow>>

Drop(c, kind) ==
    /\ reply = NoReply
    /\ connOpen[c]
    /\ connOpen' = [connOpen EXCEPT ![c] = FALSE]
    /\ connHost' = [connHost EXCEPT ![c] = NoName]
    /\ reply' = Reply(c, [action |-> kind], NoStatus, EmptyDict)
    /\ UNCHANGED <<registry, registryOrder, now, sweepPc, sweepWake, sweepNow>>

\* main(): accept a connection and start handle_conn with hostname = None
Accept(c) ==
    /\ reply = NoReply
    /\ ~connOpen[c]
    /\ connOpen' = [connOpen EXCEPT ![c] = TRUE]
    /\ connHost' = [connHost EXCEPT ![c] = NoName]
    /\ reply' = NoReply
    /\ UNCHANGED <<registry, registryOrder, now, sweepPc, sweepWake, sweepNow>>

\* client side recv_json: the client reads the response (or sees the close)
ClientRecv ==
    /\ reply # NoReply
    /\ reply' = NoReply
    /\ UNCHANGED <<registry, registryOrder, connOpen, connHost, now,
                   sweepPc, sweepWake, sweepNow>>

\* ------------------------------------------------------------ cleanup_thread
SweepSample ==
    /\ reply = NoReply
    /\ sweepPc = "sleep"
    /\ now >= sweepWake
    /\ sweepNow' = now
    /\ sweepPc' = "sampled"
    /\ reply' = NoReply
    /\ UNCHANGED <<registry, registryOrder, connOpen, connHost, now, sweepWake>>

\* a sweep that allows one more sweep period before it removes a host
ToRemoveLate(reg, t) ==
    {h \in DOMAIN reg : t - reg[h].last_seen >
                           CLIENT_INACTIVE_TIMEOUT + CLIENT_CLEANUP_INTERVAL}
ToRemove(reg, t) ==
    {h \in DOMAIN reg : t - reg[h].last_seen > CLIENT_INACTIVE_TIMEOUT}

RECURSIVE PopAll(_, _)
PopAll(d, ks) ==
    IF ks = {} THEN d
    ELSE LET k == CHOOSE x \in ks : TRUE IN PopAll(Pop(d, k), ks \ {k})

\* a removal pass that judges a host by the age of its record
SweepRemoveByAge ==
    /\ reply = NoReply
    /\ sweepPc = "sampled"
    /\ LET to_remove == {h \in DOMAIN registry :
                            sweepNow - registry[h].connected_at >
                                CLIENT_INACTIVE_TIMEOUT}
       IN  /\ registry' = PopAll(registry, to_remove)
           /\ registryOrder' =
                 SelectSeq(registryOrder, LAMBDA h : h \notin to_remove)
    /\ sweepPc' = "sleep"
    /\ sweepWake' = now + CLIENT_CLEANUP_INTERVAL
    /\ sweepNow' = 0
    /\ reply' = NoReply
    /\ UNCHANGED <<connOpen, connHost, now>>
SweepRemove ==
    /\ reply = NoReply
    /\ sweepPc = "sampled"
    /\ LET to_remove == ToRemove(registry, sweepNow)
       IN  /\ registry' = PopAll(registry, to_remove)
           /\ registryOrder' =
                 SelectSeq(registryOrder, LAMBDA h : h \notin to_remove)
    /\ sweepPc' = "sleep"
    /\ sweepWake' = now + CLIENT_CLEANUP_INTERVAL
    /\ sweepNow' = 0
    /\ reply' = NoReply
    /\ UNCHANGED <<connOpen, connHost, now>>

\* ---------------------------------------------------------------------- clock
TickSteps == {CLIENT_INACTIVE_TIMEOUT + CLIENT_CLEANUP_INTERVAL}

Tick(d) ==
    /\ reply = NoReply
    /\ now + d <= MaxTime
    /\ now' = now + d
    /\ reply' = NoReply
    /\ UNCHANGED <<registry, registryOrder, connOpen, connHost,
                   sweepPc, sweepWake, sweepNow>>

\* time passes while cleanup_thread sleeps, and the thread wakes up when its
\* time.sleep(CLIENT_CLEANUP_INTERVAL) is over
TickUrgent(d) ==
    /\ reply = NoReply
    /\ sweepPc = "sleep"
    /\ now + d <= sweepWake
    /\ now + d <= MaxSweepTime
    /\ now' = now + d
    /\ reply' = NoReply
    /\ UNCHANGED <<registry, registryOrder, connOpen, connHost,
                   sweepPc, sweepWake, sweepNow>>

\* ======================================================================
\* AdaptiveHeartbeat
\* ======================================================================
ClientStates == {"idle", "active", "busy", "offline"}

NoCall == [op |-> "-", interval |-> 0, due |-> FALSE, state |-> ""]
Call(op, interval, due, st) ==
    [op |-> op, interval |-> interval, due |-> due, state |-> st]

\* _change_state: the new state and the state_changes log
ChangeState(st, log, new_state) ==
    IF st # new_state
    THEN [state |-> new_state, log |-> Append(log, <<st, new_state>>)]
    ELSE [state |-> st, log |-> log]

\* _update_state without its test for BUSY
UpdateStateAlways(st, log, idle_time) ==
    IF idle_time > IDLE_THRESHOLD /\ st # "idle"
    THEN ChangeState(st, log, "idle")
    ELSE [state |-> st, log |-> log]
\* _update_state
UpdateState(st, log, idle_time) ==
    IF st = "busy" THEN [state |-> st, log |-> log]
    ELSE IF idle_time > IDLE_THRESHOLD /\ st # "idle"
         THEN ChangeState(st, log, "idle")
         ELSE [state |-> st, log |-> log]

\* a table whose intervals are longer than the inactivity threshold
IntervalOfSlow(st) == CLIENT_INACTIVE_TIMEOUT + CLIENT_CLEANUP_INTERVAL
\* the intervals table of get_interval
IntervalOf(st) ==
    CASE st = "idle"    -> IDLE_INTERVAL
      [] st = "active"  -> ACTIVE_INTERVAL
      [] st = "busy"    -> BUSY_INTERVAL
      [] st = "offline" -> IDLE_INTERVAL * 2
      [] OTHER          -> ACTIVE_INTERVAL

\* mark_activity without its transition from IDLE
MarkActivityKeeps(st, log) == [state |-> st, log |-> log]
\* mark_activity, after last_activity was set
MarkActivityState(st, log) ==
    IF st = "idle" THEN ChangeState(st, log, "active")
    ELSE [state |-> st, log |-> log]

\* the log is capped: a call that would append to a full log is left out
LogFits(r) == Len(r.log) <= MaxStateChanges

HbFrame == UNCHANGED <<regVars, histVars, dlVars, cliVars>>

\* heartbeat_thread: "off" (not started), "loop" (at the top of its loop),
\* "sleep" (in time.sleep(interval), until wake), "pinged" (PING sent)
ThreadAt(pc, wake) == [pc |-> pc, wake |-> wake]

GetInterval ==
    LET r == UpdateState(hbState, state_changes, now - last_activity)
    IN  /\ LogFits(r)
        /\ hbState' = r.state
        /\ state_changes' = r.log
        /\ hbCall' = Call("get_interval", IntervalOf(r.state), FALSE, "")
        /\ UNCHANGED <<last_activity, last_heartbeat, total_heartbeats>>
        /\ HbFrame

MarkActivity ==
    LET r == MarkActivityState(hbState, state_changes)
    IN  /\ LogFits(r)
        /\ last_activity' = now
        /\ hbState' = r.state
        /\ state_changes' = r.log
        /\ hbCall' = Call("mark_activity", 0, FALSE, "")
        /\ UNCHANGED <<last_heartbeat, total_heartbeats>>
        /\ HbFrame

StartFileTransfer ==
    LET m == MarkActivityState(hbState, state_changes)
        r == ChangeState(m.state, m.log, "busy")
    IN  /\ LogFits(r)
        /\ last_activity' = now
        /\ hbState' = r.state
        /\ state_changes' = r.log
        /\ hbCall' = Call("start_file_transfer", 0, FALSE, "")
        /\ UNCHANGED <<last_heartbeat, total_heartbeats>>
        /\ HbFrame

EndFileTransfer ==
    LET m == MarkActivityState(hbState, state_changes)
        r == ChangeState(m.state, m.log, "active")
    IN  /\ LogFits(r)
        /\ last_activity' = now
        /\ hbState' = r.state
        /\ state_changes' = r.log
        /\ hbCall' = Call("end_file_transfer", 0, FALSE, "")
        /\ UNCHANGED <<last_heartbeat, total_heartbeats>>
        /\ HbFrame

RecordHeartbeat ==
    /\ total_heartbeats < MaxHeartbeats
    /\ last_heartbeat' = now
    /\ total_heartbeats' = total_heartbeats + 1
    /\ hbCall' = Call("record_heartbeat", 0, FALSE, "")
    /\ UNCHANGED <<hbState, last_activity, state_changes>>
    /\ HbFrame

\* get_stats: 'state' is read before 'current_interval' calls get_interval
GetStats ==
    LET r == UpdateState(hbState, state_changes, now - last_activity)
    IN  /\ LogFits(r)
        /\ hbState' = r.state
        /\ state_changes' = r.log
        /\ hbCall' = Call("get_stats", IntervalOf(r.state), FALSE, hbState)
        /\ UNCHANGED <<last_activity, last_heartbeat, total_heartbeats>>
        /\ HbFrame

ShouldSendHeartbeat ==
    LET r == UpdateState(hbState, state_changes, now - last_activity)
    IN  /\ LogFits(r)
        /\ hbState' = r.state
        /\ state_changes' = r.log
        /\ hbCall' = Call("should_send_heartbeat", IntervalOf(r.state),
                          (now - last_heartbeat) >= IntervalOf(r.state), "")
        /\ UNCHANGED <<last_activity, last_heartbeat, total_heartbeats>>
        /\ HbFrame

HbTickSteps == {IDLE_THRESHOLD}

HbTick(d) ==
    /\ now + d <= MaxHbTime
    /\ now' = now + d
    /\ hbCall' = NoCall
    /\ UNCHANGED <<hbState, last_activity, last_heartbeat, total_heartbeats,
                   state_changes>>
    /\ UNCHANGED <<regState, histVars, dlVars, cliVars>>

\* ======================================================================
\* Peer download: fetch_file, Client.download_from_peer, FetchSession
\* ======================================================================
\* What the serving peer does on the connection:
\*   "REFUSED"  connect() raises
\*   "CLOSE"    the connection closes before a header line was received
\*   "ERROR"    an ERROR <reason> line
\*   "BADLEN"   a LENGTH line whose number does not parse
\*   "LENGTH"   LENGTH <size>, then `body` bytes, then the connection closes
PeerHeaders == {"REFUSED", "CLOSE", "ERROR", "BADLEN", "LENGTH"}
NoPeer == [header |-> "-", size |-> 0, body |-> 0]

\* fetch_id: "none" (Client.request), "known" (fetch_file created the
\* session), "unknown" (no such session in fetch_manager)
FetchIds == {"none", "known", "unknown"}

NoSession == [status |-> "none", total_size |-> 0, downloaded_size |-> 0,
              file_handle |-> FALSE, error_message |-> ""]
\* FetchSession.__init__
NewSession(total_size) ==
    [status |-> "pending", total_size |-> total_size, downloaded_size |-> 0,
     file_handle |-> FALSE, error_message |-> ""]
\* FetchSession.start
SessionStart(se) == [se EXCEPT !.file_handle = TRUE, !.status = "downloading"]
\* FetchSession.write_chunk (file_handle is open)
SessionWriteChunk(se, n) ==
    [se EXCEPT !.downloaded_size = se.downloaded_size + n]
\* a complete() that accepts surplus bytes
SessionCompleteAtLeast(se) ==
    IF se.downloaded_size < se.total_size
    THEN [se EXCEPT !.file_handle = FALSE, !.status = "failed",
                    !.error_message = "Size mismatch"]
    ELSE [se EXCEPT !.file_handle = FALSE, !.status = "completed"]
\* FetchSession.complete
SessionComplete(se) ==
    IF se.downloaded_size # se.total_size
    THEN [se EXCEPT !.file_handle = FALSE, !.status = "failed",
                    !.error_message = "Size mismatch"]
    ELSE [se EXCEPT !.file_handle = FALSE, !.status = "completed"]
\* FetchSession.fail
SessionFail(se, error_message) ==
    [se EXCEPT !.file_handle = FALSE, !.status = "failed",
               !.error_message = error_message]

\* pc: "idle" | "header" | "body" | "legacy" | "post" | "returned" | "done"
\* data_len is len(data) on the session path, bytes_received on the legacy
\* path: the body bytes taken off the socket so far, `rest` included;
\* ends: the calls of end_file_transfer this invocation has made
NoDownload == [pc |-> "idle", fetch_id |-> "none", total_size |-> 0,
               rest |-> 0, data_len |-> 0, result |-> "-", fault |-> FALSE,
               ends |-> 0]

Min(a, b) == IF a < b THEN a ELSE b

\* the heartbeat side of a download step: start_file_transfer when it begins
HbStartTransfer ==
    LET m == MarkActivityState(hbState, state_changes)
        r == ChangeState(m.state, m.log, "busy")
    IN  /\ LogFits(r)
        /\ last_activity' = now
        /\ hbState' = r.state
        /\ state_changes' = r.log
        /\ hbCall' = Call("start_file_transfer", 0, FALSE, "")
        /\ UNCHANGED <<last_heartbeat, total_heartbeats>>

\* ... and end_file_transfer on each of its ways out
HbEndTransfer ==
    LET m == MarkActivityState(hbState, state_changes)
        r == ChangeState(m.state, m.log, "active")
    IN  /\ LogFits(r)
        /\ last_activity' = now
        /\ hbState' = r.state
        /\ state_changes' = r.log
        /\ hbCall' = Call("end_file_transfer", 0, FALSE, "")
        /\ UNCHANGED <<last_heartbeat, total_heartbeats>>

DlFrame == UNCHANGED <<regVars, histVars, sessCall, cliVars>>
\* what the last step of a download leaves alone
PostFrame == UNCHANGED <<regVars, histVars, sessCall, published_files,
                         state_file, running, serve, cliCall, hbThread>>

\* fetch_file creates the session with the size the Registry reported
\* (registry_size) and starts download_from_peer, or Client.request starts it
\* without a session; the peer's answer is fixed from here on
FetchStart(fetch_id, registry_size, header, size, body) ==
    /\ dl.pc \in {"idle", "done"}
    /\ peer' = [header |-> header, size |-> size, body |-> body]
    /\ sess' = IF fetch_id = "known" THEN NewSession(registry_size)
               ELSE NoSession
    /\ dl' = [NoDownload EXCEPT !.pc = "header", !.fetch_id = fetch_id]
    /\ HbStartTransfer
    /\ DlFrame

\* the header loop and what follows up to the first body recv
RecvHeader(rest) ==
    /\ dl.pc = "header"
    /\ IF peer.header # "LENGTH"
       THEN /\ rest = 0
            /\ dl' = [dl EXCEPT !.pc = "returned", !.result = "None",
                                !.ends = @ + 1]
            /\ UNCHANGED sess
            /\ HbEndTransfer
       ELSE /\ rest <= peer.body
            /\ IF peer.size > LARGE_FILE \/ dl.fetch_id # "none"
               THEN /\ sess' = IF dl.fetch_id = "known"
                               THEN SessionStart(sess)
                               ELSE SessionStart(NewSession(peer.size))
                    /\ dl' = [dl EXCEPT !.pc = "body",
                                        !.total_size = peer.size,
                                        !.rest = rest, !.data_len = rest]
               ELSE /\ UNCHANGED sess
                    /\ dl' = [dl EXCEPT !.pc = "legacy",
                                        !.total_size = peer.size,
                                        !.rest = rest, !.data_len = rest]
            /\ UNCHANGED hbVars
    /\ UNCHANGED peer
    /\ DlFrame

\* one turn of the session loop: recv returns n bytes, write_chunk stores them
RecvBody(n) ==
    /\ dl.pc = "body"
    /\ dl.data_len < dl.total_size
    /\ n >= 1
    /\ n <= Min(dl.total_size - dl.data_len, peer.body - dl.data_len)
    /\ sess' = SessionWriteChunk(sess, n)
    /\ dl' = [dl EXCEPT !.data_len = dl.data_len + n]
    /\ UNCHANGED <<peer, hbVars>>
    /\ DlFrame

\* the session loop ends (enough bytes, or recv returned b''): complete()
FinishBody ==
    /\ dl.pc = "body"
    /\ dl.data_len >= dl.total_size \/ peer.body - dl.data_len <= 0
    /\ sess' = SessionComplete(sess)
    /\ IF sess'.status = "completed"
       THEN /\ dl' = [dl EXCEPT !.pc = "post"]
            /\ UNCHANGED hbVars
       ELSE /\ dl' = [dl EXCEPT !.pc = "returned", !.result = "None",
                                !.ends = @ + 1]
            /\ HbEndTransfer
    /\ UNCHANGED peer
    /\ DlFrame

\* one turn of the legacy loop
RecvLegacy(n) ==
    /\ dl.pc = "legacy"
    /\ dl.data_len < dl.total_size
    /\ n >= 1
    /\ n <= Min(dl.total_size - dl.data_len, peer.body - dl.data_len)
    /\ dl' = [dl EXCEPT !.data_len = dl.data_len + n]
    /\ UNCHANGED <<peer, sess, hbVars>>
    /\ DlFrame

\* the size check without end_file_transfer on its failure branch
FinishLegacyStaysBusy ==
    /\ dl.pc = "legacy"
    /\ dl.data_len >= dl.total_size \/ peer.body - dl.data_len <= 0
    /\ IF dl.data_len # dl.total_size
       THEN /\ dl' = [dl EXCEPT !.pc = "returned", !.result = "None"]
       ELSE /\ dl' = [dl EXCEPT !.pc = "post"]
    /\ UNCHANGED <<peer, sess, hbVars>>
    /\ DlFrame
\* the legacy loop ends: the size check
FinishLegacy ==
    /\ dl.pc = "legacy"
    /\ dl.data_len >= dl.total_size \/ peer.body - dl.data_len <= 0
    /\ IF dl.data_len # dl.total_size
       THEN /\ dl' = [dl EXCEPT !.pc = "returned", !.result = "None",
                                !.ends = @ + 1]
            /\ HbEndTransfer
       ELSE /\ dl' = [dl EXCEPT !.pc = "post"]
            /\ UNCHANGED hbVars
    /\ UNCHANGED <<peer, sess>>
    /\ DlFrame

\* the file the download wrote at outpath is recorded as a local file
\* (not published) and its path returned; reading the metadata of the saved
\* file may raise (ok = FALSE: the file is gone), which ends in `except`
PostProcess(ok) ==
    /\ dl.pc = "post"
    /\ dl' = [dl EXCEPT !.pc = "returned",
                        !.result = IF ok THEN "path" ELSE "None",
                        !.fault = ~ok, !.ends = @ + 1]
    /\ IF ok
       THEN LET metadata == FileMetadata(RepoPath, FALSE)
            IN  /\ disk' = [disk EXCEPT ![RepoPath] =
                         [kind |-> "file",
                          len  |-> IF sess.status = "none" THEN dl.data_len
                                   ELSE sess.downloaded_size]]
                /\ local_files' = Put(local_files, DownloadName, metadata)
                /\ meta_files' = Put(meta_files, DownloadName, metadata)
       ELSE /\ disk' = [disk EXCEPT ![RepoPath] = NoFile]
            /\ UNCHANGED <<local_files, meta_files>>
    /\ HbEndTransfer
    /\ UNCHANGED <<peer, sess>>
    /\ PostFrame

\* a recv times out (s.settimeout(30)): the exception ends in `except`
RecvTimeout ==
    /\ dl.pc \in {"header", "body", "legacy"}
    /\ dl' = [dl EXCEPT !.pc = "returned", !.result = "None", !.fault = TRUE,
                        !.ends = @ + 1]
    /\ HbEndTransfer
    /\ UNCHANGED <<peer, sess>>
    /\ DlFrame

\* fetch_task after download_from_peer has returned
FetchTaskEnd ==
    /\ dl.pc = "returned"
    /\ sess' = IF dl.fetch_id = "known" /\ dl.result = "None"
               THEN SessionFail(sess, "P2P fetch failed") ELSE sess
    /\ dl' = [dl EXCEPT !.pc = "done"]
    /\ UNCHANGED <<peer, hbVars>>
    /\ DlFrame

\* ------------------------------------------- FetchSession, called directly
\* ret: "-" (returns None), "True", "False", "raise"
NoSessCall == [op |-> "-", ret |-> "-"]
SessCall(op, ret) == [op |-> op, ret |-> ret]

SessFrame == UNCHANGED <<regVars, histVars, hbVars, peer, dl, cliVars>>

\* FetchSession(file_name, total_size, save_path)
SessNew(total_size) ==
    /\ sess = NoSession
    /\ sess' = NewSession(total_size)
    /\ sessCall' = SessCall("__init__", "-")
    /\ SessFrame

\* start(): open(save_path, 'wb') may raise, before anything is assigned
SessStart(opens) ==
    /\ sess # NoSession
    /\ IF opens
       THEN /\ sess' = SessionStart(sess)
            /\ sessCall' = SessCall("start", "-")
       ELSE /\ UNCHANGED sess
            /\ sessCall' = SessCall("start", "raise")
    /\ SessFrame

\* write_chunk without its test of the file handle
SessWriteChunkAlways(n) ==
    /\ sess # NoSession
    /\ sess.downloaded_size + n <= MaxSize + 1
    /\ sess' = SessionWriteChunk(sess, n)
    /\ sessCall' = [op |-> "write_chunk", ret |-> "-", len |-> n]
    /\ SessFrame
\* write_chunk(data) with len(data) = n
SessWriteChunk(n) ==
    /\ sess # NoSession
    /\ IF sess.file_handle
       THEN /\ sess.downloaded_size + n <= MaxSize + 1
            /\ sess' = SessionWriteChunk(sess, n)
            /\ sessCall' = [op |-> "write_chunk", ret |-> "-", len |-> n]
       ELSE /\ UNCHANGED sess
            /\ sessCall' = [op |-> "write_chunk", ret |-> "raise", len |-> n]
    /\ SessFrame

\* complete()
SessComplete ==
    /\ sess # NoSession
    /\ sess' = SessionComplete(sess)
    /\ sessCall' = SessCall("complete", IF sess'.status = "completed"
                                        THEN "True" ELSE "False")
    /\ SessFrame

\* fail(error_message)
SessFail(error_message) ==
    /\ sess # NoSession
    /\ sess' = SessionFail(sess, error_message)
    /\ sessCall' = SessCall("fail", "-")
    /\ SessFrame

\* ======================================================================
\* The client's file sets and what it persists (client.py Client)
\* ======================================================================
\* os.path.exists / os.path.isfile / os.access(path, os.R_OK)
Exists(path)   == path \in DOMAIN disk /\ disk[path].kind # "missing"
IsFile(path)   == path \in DOMAIN disk
                  /\ disk[path].kind \in {"file", "unreadable"}
Readable(path) == path \in DOMAIN disk /\ disk[path].kind \in {"file", "dir"}

\* FileMetadata.validate_path without its os.access test
ValidatePathNoAccess(meta) ==
    /\ meta.path # NoName
    /\ Exists(meta.path)
    /\ IsFile(meta.path)
\* FileMetadata.validate_path
ValidatePath(meta) ==
    /\ meta.path # NoName
    /\ Exists(meta.path)
    /\ IsFile(meta.path)
    /\ Readable(meta.path)

\* _save_state: the is_published flag of every local file
SavedState(local) == [fname \in DOMAIN local |-> local[fname].is_published]

\* mark_activity on the heartbeat controller, as publish calls it
HbMarkActivity ==
    LET r == MarkActivityState(hbState, state_changes)
    IN  /\ LogFits(r)
        /\ last_activity' = now
        /\ hbState' = r.state
        /\ state_changes' = r.log
        /\ hbCall' = Call("mark_activity", 0, FALSE, "")
        /\ UNCHANGED <<last_heartbeat, total_heartbeats>>

CliFrame == UNCHANGED <<regVars, histVars, dlVars, hbThread>>

\* found: fname was in published_files when the method was called;
\* resp: what the Registry answered when the method sent it a message
NoCliCall == [op |-> "-", fname |-> NoName, found |-> FALSE, resp |-> "-"]
CliCall(op, fname) ==
    [op |-> op, fname |-> fname, found |-> fname \in DOMAIN published_files,
     resp |-> "-"]

\* Client.publish(local_path, fname, overwrite, interactive = False); resp is
\* the status the Registry answers to PUBLISH
CliPublish(local_path, fname, overwrite, resp) ==
    /\ HbMarkActivity
    /\ IF ~(Exists(local_path) /\ IsFile(local_path) /\ Readable(local_path))
       THEN UNCHANGED <<local_files, published_files, meta_files, state_file>>
       ELSE IF fname \in DOMAIN published_files /\ ~overwrite
       THEN UNCHANGED <<local_files, published_files, meta_files, state_file>>
       ELSE LET metadata == FileMetadata(local_path, TRUE)
            IN  /\ local_files' = Put(local_files, fname, metadata)
                /\ published_files' = Put(published_files, fname, metadata)
                /\ meta_files' = Put(meta_files, fname, metadata)
                /\ state_file' = IF resp = "ACK" THEN SavedState(local_files')
                                 ELSE state_file
    /\ cliCall' = [CliCall("publish", fname) EXCEPT
                      !.resp = IF /\ Exists(local_path) /\ IsFile(local_path)
                                  /\ Readable(local_path)
                                  /\ (fname \notin DOMAIN published_files
                                         \/ overwrite)
                               THEN resp ELSE "-"]
    /\ UNCHANGED <<disk, running, serve>>
    /\ CliFrame

\* Client.unpublish(fname)
CliUnpublish(fname, resp) ==
    /\ IF fname \notin DOMAIN published_files
       THEN UNCHANGED <<local_files, published_files, meta_files, state_file>>
       ELSE /\ published_files' = Pop(published_files, fname)
            /\ IF fname \in DOMAIN local_files
               THEN /\ local_files' =
                         [local_files EXCEPT ![fname].is_published = FALSE]
                    /\ meta_files' = Put(meta_files, fname, local_files'[fname])
               ELSE UNCHANGED <<local_files, meta_files>>
            /\ state_file' = IF resp = "ACK" THEN SavedState(local_files')
                             ELSE state_file
    /\ cliCall' = [CliCall("unpublish", fname) EXCEPT
                      !.resp = IF fname \in DOMAIN published_files
                               THEN resp ELSE "-"]
    /\ UNCHANGED <<disk, running, serve>>
    /\ UNCHANGED hbVars
    /\ CliFrame

\* Client.add_local_file(filepath)
CliAddLocalFile(filepath) ==
    /\ IF ~IsFile(filepath)
       THEN UNCHANGED <<local_files, meta_files>>
       ELSE LET fname == Basename(filepath)
                metadata == FileMetadata(filepath, FALSE)
            IN  /\ local_files' = Put(local_files, fname, metadata)
                /\ meta_files' = Put(meta_files, fname, metadata)
    /\ cliCall' = CliCall("add_local_file", Basename(filepath))
    /\ UNCHANGED <<published_files, state_file, disk, running, serve>>
    /\ UNCHANGED hbVars
    /\ CliFrame

\* _scan_repo_directory: every <fname>.meta.json becomes a local file, and
\* a published one when its is_published is set
ScannedLocal == meta_files
ScannedPublished ==
    [fname \in {x \in DOMAIN meta_files : meta_files[x].is_published} |->
        meta_files[fname]]

\* _load_state on top of the scan: the state file overrides is_published of
\* the local files it names (the published set holds the same objects)
RestoredLocal ==
    [fname \in DOMAIN ScannedLocal |->
        IF fname \in DOMAIN state_file
        THEN [ScannedLocal[fname] EXCEPT !.is_published = state_file[fname]]
        ELSE ScannedLocal[fname]]
\* a _load_state that does not test `fname in self.local_files`
RestoredPublishedAll ==
    [fname \in (DOMAIN ScannedPublished)
               \cup {x \in DOMAIN state_file : state_file[x]} |->
        IF fname \in DOMAIN RestoredLocal THEN RestoredLocal[fname]
        ELSE FileMetadata(RepoPath, TRUE)]
RestoredPublished ==
    [fname \in (DOMAIN ScannedPublished)
               \cup {x \in (DOMAIN state_file) \cap (DOMAIN ScannedLocal) :
                        state_file[x]} |->
        RestoredLocal[fname]]

\* the client process is started again: Client.__init__ builds the file sets
\* from the repository and the state file, with a new heartbeat controller
CliRestart ==
    /\ dl.pc \in {"idle", "done"}
    /\ serve.pc \in {"idle", "closed"}
    /\ local_files' = RestoredLocal
    /\ published_files' = RestoredPublished
    /\ running' = TRUE
    /\ serve' = NoServe
    /\ hbState' = "active"
    /\ last_activity' = now
    /\ last_heartbeat' = now
    /\ total_heartbeats' = 0
    /\ state_changes' = <<>>
    /\ hbCall' = NoCall
    /\ hbThread' = ThreadAt("loop", 0)
    /\ cliCall' = NoCliCall
    /\ UNCHANGED <<meta_files, state_file, disk>>
    /\ UNCHANGED <<regVars, histVars, dlVars>>

\* Client.close(): the threads are told to stop
CliStop ==
    /\ running
    /\ running' = FALSE
    /\ UNCHANGED <<local_files, published_files, meta_files, state_file, disk,
                   serve, cliCall>>
    /\ UNCHANGED hbVars
    /\ CliFrame

\* somebody else writes to the file at path in place (it grows or shrinks)
DiskWrite(path, len) ==
    /\ disk[path].kind \in {"file", "unreadable"}
    /\ disk[path].len # len
    /\ disk' = [disk EXCEPT ![path].len = len]
    /\ UNCHANGED <<local_files, published_files, meta_files, state_file,
                   running, serve, cliCall>>
    /\ UNCHANGED hbVars
    /\ CliFrame

\* somebody else replaces what is at path: creates or deletes a file, makes
\* a directory, or changes the read permission.  A handle that is open on
\* the old file keeps reading the old file.
DiskReplace(path, kind, len) ==
    /\ disk[path] # [kind |-> kind, len |-> len]
    /\ kind \in {"dir", "missing"} => len = 0
    /\ disk' = [disk EXCEPT ![path] = [kind |-> kind, len |-> len]]
    /\ serve' = IF /\ serve.pc = "streaming"
                   /\ serve.path = path
                   /\ ~serve.detached
                   /\ ~(disk[path].kind \in {"file", "unreadable"}
                        /\ kind \in {"file", "unreadable"}
                        /\ len = disk[path].len)
                THEN [serve EXCEPT !.detached = TRUE,
                                   !.ilen = disk[path].len]
                ELSE serve
    /\ UNCHANGED <<local_files, published_files, meta_files, state_file,
                   running, cliCall>>
    /\ UNCHANGED hbVars
    /\ CliFrame

\* somebody else deletes <repo_dir>/<fname>.meta.json
MetaDelete(fname) ==
    /\ fname \in DOMAIN meta_files
    /\ meta_files' = Pop(meta_files, fname)
    /\ UNCHANGED <<local_files, published_files, state_file, disk,
                   running, serve, cliCall>>
    /\ UNCHANGED hbVars
    /\ CliFrame

\* ======================================================================
\* The peer server on one connection (client.py PeerServer.handle_peer)
\* ======================================================================
ServeFrame ==
    /\ UNCHANGED <<local_files, published_files, meta_files, state_file, disk,
                   running, cliCall>>
    /\ UNCHANGED hbVars
    /\ CliFrame

\* a connection is accepted and its first line is GET <fname>: the lookup in
\* published_files and validate_path
ServeGet(fname) ==
    /\ running
    /\ serve.pc \in {"idle", "closed"}
    /\ LET published == fname \in DOMAIN published_files
           meta == published_files[fname]
           seen == [published |-> published,
                    kind |-> IF published /\ meta.path \in DOMAIN disk
                             THEN disk[meta.path].kind ELSE "-"]
           conn == [NoServe EXCEPT !.fname = fname, !.at_lookup = seen]
       IN  IF ~published
           THEN serve' = [conn EXCEPT !.pc = "closed", !.header = "ERROR",
                                      !.errors = 1]
           ELSE IF ~ValidatePath(meta)
           THEN serve' = [conn EXCEPT !.pc = "closed", !.header = "ERROR",
                                      !.errors = 1]
           ELSE serve' = [conn EXCEPT !.pc = "validated", !.path = meta.path]
    /\ ServeFrame

\* the first line is not GET <fname>: the connection is closed, nothing sent
ServeOther ==
    /\ running
    /\ serve.pc \in {"idle", "closed"}
    /\ serve' = [NoServe EXCEPT !.pc = "closed"]
    /\ ServeFrame

\* os.path.getsize and the LENGTH line; getsize raises when nothing is at
\* the path any more, which ends in ERROR readerror
ServeLength ==
    /\ serve.pc = "validated"
    /\ IF ~Exists(serve.path)
       THEN serve' = [serve EXCEPT !.pc = "closed", !.header = "ERROR",
                                   !.errors = 1, !.aborted = TRUE]
       ELSE serve' = [serve EXCEPT !.pc = "sized", !.header = "LENGTH",
                                   !.size = disk[serve.path].len]
    /\ ServeFrame

\* open(fpath, 'rb'); raises unless a readable regular file is at the path
ServeOpen ==
    /\ serve.pc = "sized"
    /\ IF disk[serve.path].kind # "file"
       THEN serve' = [serve EXCEPT !.pc = "closed",
                                   !.errors = serve.errors + 1,
                                   !.aborted = TRUE]
       ELSE serve' = [serve EXCEPT !.pc = "streaming"]
    /\ ServeFrame

\* one turn of the streaming loop: the shutdown test, f.read(chunk_size),
\* and sendall of the chunk or the end of the loop at end of file
ServeRead ==
    /\ serve.pc = "streaming"
    /\ LET flen == IF serve.detached THEN serve.ilen
                   ELSE disk[serve.path].len
           chunk == Min(CHUNK_SIZE, flen - serve.sent)
       IN  IF ~running
           THEN serve' = [serve EXCEPT !.pc = "closed",
                                       !.errors = serve.errors + 1,
                                       !.aborted = TRUE]
           ELSE IF chunk <= 0
           THEN serve' = [serve EXCEPT !.pc = "closed"]
           ELSE serve' = [serve EXCEPT !.sent = serve.sent + chunk]
    /\ ServeFrame

\* --------------------------------------------------------------- inputs
\* what the clients of the model send: client A tracks files f and g, client
\* B tracks file f; a copy's size and mtime are those of the file on its host
Catalog(h)  == IF h = "A" THEN {"f", "g"} ELSE IF h = "B" THEN {"f"} ELSE {}
FileSize(h) == IF h = "B" THEN 4096 ELSE 2048
FileMTime   == 0

HostArgs == Hosts \cup {NoName}
FileArgs == Files \cup {NoName}
PortArgs == {PeerPort, 0}

Meta(h, pub) ==
    [size |-> FileSize(h), modified |-> FileMTime,
     published_at |-> IF pub THEN 0 ELSE NoTime, is_published |-> pub]
\* snapshots a client sends in REGISTER: nothing, file f published, file f
\* unpublished, an entry that carries only a size, or (a restarting client)
\* the file state the registry holds for it
Snapshots(h) ==
    IF h \notin Hosts THEN {EmptyDict}
    ELSE { EmptyDict,
           [fname \in {"f"} |-> Meta(h, TRUE)],
           [fname \in {"f"} |-> Meta(h, FALSE)],
           [fname \in {"f"} |-> [size |-> FileSize(h)]] }
         \cup (IF h \in DOMAIN registry THEN {registry[h].files} ELSE {})

NoWire == [inflight |-> <<>>, sent |-> <<>>, handled |-> <<>>]

RegInit ==
    /\ registry = EmptyDict
    /\ registryOrder = <<>>
    /\ connOpen = [c \in Conns |-> FALSE]
    /\ connHost = [c \in Conns |-> NoName]
    /\ now = 0
    /\ sweepPc = "sleep"
    /\ sweepWake = CLIENT_CLEANUP_INTERVAL
    /\ sweepNow = 0
    /\ reply = NoReply

HistInit ==
    /\ registered = {}
    /\ pubHist = [p \in Hosts \X Files |-> "none"]
    /\ evicted = {}
    /\ wire = NoWire
    /\ downloads = {}

\* AdaptiveHeartbeat(ClientState.ACTIVE), as the client constructs it
HbInit ==
    /\ hbState = "active"
    /\ last_activity = 0
    /\ last_heartbeat = 0
    /\ total_heartbeats = 0
    /\ state_changes = <<>>
    /\ hbCall = NoCall

DlInit ==
    /\ peer = NoPeer
    /\ sess = NoSession
    /\ sessCall = NoSessCall
    /\ dl = NoDownload

\* a client with an empty repository; the user's file p exists
CliInit ==
    /\ local_files = EmptyDict
    /\ published_files = EmptyDict
    /\ meta_files = EmptyDict
    /\ state_file = EmptyDict
    /\ disk = [path \in Paths |->
                 IF path = "p" THEN [kind |-> "file", len |-> 1] ELSE NoFile]
    /\ running = TRUE
    /\ serve = NoServe
    /\ cliCall = NoCliCall
    /\ hbThread = ThreadAt("off", 0)

Init == RegInit /\ HistInit /\ HbInit /\ DlInit /\ CliInit

\* the registry service: every control action, the sweep, and a clock that
\* jumps by more than the inactivity threshold
Others == UNCHANGED <<histVars, hbVars, dlVars, cliVars>>

Next ==
    \/ \E c \in Conns : Accept(c) /\ Others
    \/ \E c \in Conns, h \in HostArgs, p \in PortArgs :
          \E snap \in (IF p = 0 THEN {EmptyDict} ELSE Snapshots(h)) :
             Register(c, h, p, NoName, snap) /\ Others
    \/ \E c \in Conns, h \in Hosts, before \in SUBSET {"f"} :
          RegisterRaises(c, h, PeerPort, NoName,
                         [fname \in {"f"} |-> Meta(h, TRUE)], "g", before)
          /\ Others
    \/ \E c \in Conns, h \in Hosts :
          \E f \in Catalog(h) :
             Publish(c, h, f, FileSize(h), FileMTime) /\ Others
    \/ \E c \in Conns :
          Publish(c, NoName, "f", FileSize(NoName), FileMTime) /\ Others
    \/ \E c \in Conns, h \in HostArgs, f \in FileArgs :
          Unpublish(c, h, f) /\ Others
    \/ \E c \in Conns, f \in FileArgs : Request(c, f) /\ Others
    \/ \E c \in Conns, h \in HostArgs : Discover(c, h) /\ Others
    \/ \E c \in Conns, h \in HostArgs : Ping(c, h) /\ Others
    \/ \E c \in Conns, h \in HostArgs : Unregister(c, h) /\ Others
    \/ \E c \in Conns : List(c) /\ Others
    \/ \E c \in Conns : UnknownAction(c) /\ Others
    \/ \E c \in Conns, k \in DropKinds : Drop(c, k) /\ Others
    \/ ClientRecv /\ Others
    \/ SweepSample /\ Others
    \/ SweepRemove /\ Others
    \/ \E d \in TickSteps : Tick(d) /\ Others

Spec == Init /\ [][Next]_vars

\* ======================================================================
\* Registry membership (REGISTER / UNREGISTER / sweep / LIST)
\* ======================================================================
MemberFrame == UNCHANGED <<pubHist, evicted, wire, downloads, hbVars, dlVars, cliVars>>

NextMember ==
    \/ \E c \in Conns : Accept(c) /\ UNCHANGED registered /\ MemberFrame
    \/ \E c \in Conns, h \in HostArgs, p \in PortArgs :
          \E snap \in (IF p = 0 THEN {EmptyDict} ELSE Snapshots(h)) :
             /\ Register(c, h, p, NoName, snap)
             /\ registered' = IF reply'.status = "OK"
                              THEN registered \cup {h} ELSE registered
             /\ MemberFrame
    \/ \E c \in Conns, h \in HostArgs :
          /\ Unregister(c, h)
          /\ registered' = IF reply'.status = "OK"
                           THEN registered \ {h} ELSE registered
          /\ MemberFrame
    \/ \E c \in Conns : List(c) /\ UNCHANGED registered /\ MemberFrame
    \/ ClientRecv /\ UNCHANGED registered /\ MemberFrame
    \/ SweepSample /\ UNCHANGED registered /\ MemberFrame
    \/ /\ SweepRemove
       /\ registered' = registered \ ((DOMAIN registry) \ (DOMAIN registry'))
       /\ MemberFrame
    \/ \E d \in TickSteps : Tick(d) /\ UNCHANGED registered /\ MemberFrame

SpecMember == Init /\ [][NextMember]_vars

InRequest(h, f)  == \E i \in 1..Len(RequestHosts(f)) :
                        RequestHosts(f)[i].hostname = h
InDiscover(h, f) == h \in DOMAIN registry
                    /\ f \in DOMAIN PublishedFiles(registry[h])
InList(h, f)     == h \in DOMAIN ListSnapshot
                    /\ f \in DOMAIN ListSnapshot[h].files
Included(h, f)   == InRequest(h, f) \/ InDiscover(h, f) \/ InList(h, f)

SnapshotPublishes(snap, f) ==
    f \in DOMAIN snap /\ Get(snap[f], "is_published", FALSE)

VisFrame == UNCHANGED <<registered, evicted, wire, downloads, hbVars, dlVars, cliVars>>

NextVisibility ==
    \/ \E c \in Conns : Accept(c) /\ UNCHANGED pubHist /\ VisFrame
    \/ \E c \in Conns, h \in Hosts :
          \E snap \in Snapshots(h) :
             /\ Register(c, h, PeerPort, NoName, snap)
             /\ pubHist' = [p \in Hosts \X Files |->
                   IF /\ p[1] = h
                      /\ pubHist[p] = "withdrawn"
                      /\ SnapshotPublishes(snap, p[2])
                   THEN "reasserted" ELSE pubHist[p]]
             /\ VisFrame
    \/ \E c \in Conns, h \in Hosts :
          \E f \in Catalog(h) :
             /\ Publish(c, h, f, FileSize(h), FileMTime)
             /\ pubHist' = [pubHist EXCEPT ![<<h, f>>] = "published"]
             /\ VisFrame
    \/ \E c \in Conns, h \in Hosts, f \in Files :
          /\ Unpublish(c, h, f)
          /\ pubHist' = IF reply'.status = "ACK" /\ pubHist[<<h, f>>] # "none"
                        THEN [pubHist EXCEPT ![<<h, f>>] = "withdrawn"]
                        ELSE pubHist
          /\ VisFrame
    \/ \E c \in Conns, f \in Files : Request(c, f) /\ UNCHANGED pubHist /\ VisFrame
    \/ \E c \in Conns, h \in Hosts :
          Discover(c, h) /\ UNCHANGED pubHist /\ VisFrame
    \/ \E c \in Conns, h \in Hosts :
          Unregister(c, h) /\ UNCHANGED pubHist /\ VisFrame
    \/ \E c \in Conns : List(c) /\ UNCHANGED pubHist /\ VisFrame
    \/ ClientRecv /\ UNCHANGED pubHist /\ VisFrame

SpecVisibility == Init /\ [][NextVisibility]_vars

\* C2 as claimed: once (hostname, fname) was PUBLISHed and then UNPUBLISHed,
\* no REQUEST, DISCOVER or LIST result includes the file for the host until a
\* later PUBLISH of the pair; right after such a PUBLISH all three include it.
HiddenUntilPublish ==
    /\ \A p \in Hosts \X Files :
          pubHist[p] \in {"withdrawn", "reasserted"} => ~Included(p[1], p[2])
    /\ (reply.msg.action = "PUBLISH" /\ reply.status = "ACK") =>
          /\ InRequest(reply.msg.hostname, reply.msg.fname)
          /\ InDiscover(reply.msg.hostname, reply.msg.fname)
          /\ InList(reply.msg.hostname, reply.msg.fname)

\* C2 amended: ... until a later PUBLISH of the pair or a REGISTER of the
\* hostname whose snapshot marks the file as published; right after a
\* PUBLISH of the pair REQUEST, DISCOVER and LIST include the file again.
HiddenUntilPublishOrRegister ==
    /\ \A p \in Hosts \X Files :
          pubHist[p] = "withdrawn" => ~Included(p[1], p[2])
    /\ (reply.msg.action = "PUBLISH" /\ reply.status = "ACK") =>
          /\ InRequest(reply.msg.hostname, reply.msg.fname)
          /\ InDiscover(reply.msg.hostname, reply.msg.fname)
          /\ InList(reply.msg.hostname, reply.msg.fname)

\* host A withdrew f, is still registered and still holds the entry, and a
\* REQUEST for f was answered NOTFOUND
WitnessRequestAfterUnpublish ==
    /\ pubHist[<<"A", "f">>] = "withdrawn"
    /\ "A" \in DOMAIN registry
    /\ "f" \in DOMAIN registry["A"].files
    /\ reply.msg.action = "REQUEST"
    /\ reply.msg.fname = "f"
    /\ reply.status = "NOTFOUND"

\* ======================================================================
\* REQUEST
\* ======================================================================
Holders(fname) ==
    {h \in DOMAIN registry : /\ fname \in DOMAIN registry[h].files
                             /\ registry[h].files[fname].is_published}

\* C3: REQUEST(fname) answers NOTFOUND when no registered host holds a
\* published entry for fname, and otherwise FOUND with exactly one entry per
\* registered host that holds a published entry (nothing else), each entry
\* carrying that host's address and that entry's stored size and modified.
RequestAnswersHolders ==
    (reply.msg.action = "REQUEST" /\ reply.msg.fname # NoName) =>
        LET fname == reply.msg.fname
            hosts == reply.body.hosts
        IN  /\ reply.status = IF Holders(fname) = {} THEN "NOTFOUND"
                              ELSE "FOUND"
            /\ Len(hosts) = Cardinality(Holders(fname))
            /\ {hosts[i].hostname : i \in 1..Len(hosts)} = Holders(fname)
            /\ \A i \in 1..Len(hosts) :
                  LET h == hosts[i].hostname
                  IN  /\ hosts[i].ip = registry[h].addr[1]
                      /\ hosts[i].port = registry[h].addr[2]
                      /\ hosts[i].size = registry[h].files[fname].size
                      /\ hosts[i].modified = registry[h].files[fname].modified

\* f is published by both hosts, g is held unpublished: REQUEST f -> 2 entries
WitnessRequestTwoHolders ==
    /\ reply.msg.action = "REQUEST"
    /\ reply.msg.fname = "f"
    /\ reply.status = "FOUND"
    /\ Len(reply.body.hosts) = 2
    /\ reply.body.hosts[1].size # reply.body.hosts[2].size

\* ======================================================================
\* Idempotent re-REGISTER
\* ======================================================================
\* the step is a successful REGISTER of a registered host whose port, display
\* name and snapshot are what the registry holds, sent from the same IP
SameRegisterStep ==
    /\ reply = NoReply
    /\ reply'.msg.action = "REGISTER"
    /\ reply'.status = "OK"
    /\ LET m == reply'.msg
       IN  /\ m.hostname \in DOMAIN registry
           /\ registry[m.hostname].addr = <<ConnIP(reply'.conn), m.port>>
           /\ registry[m.hostname].display_name =
                 (IF m.display_name = NoName THEN m.hostname
                  ELSE m.display_name)
           /\ registry[m.hostname].files = m.files_metadata

AllRequests == [f \in Files |-> RequestHosts(f)]

\* C7 as claimed: such a REGISTER leaves the result of REQUEST for every
\* filename and the result of LIST unchanged.
ReRegisterChangesNothing ==
    [][SameRegisterStep =>
          /\ AllRequests' = AllRequests
          /\ ListSnapshot' = ListSnapshot]_vars

\* C7 amended: such a REGISTER leaves the result of REQUEST for every
\* filename unchanged, and the result of LIST unchanged except for that
\* host's last_seen and connected_at, which become the time of the REGISTER.
ReRegisterKeepsAllButTimes ==
    [][SameRegisterStep =>
          /\ AllRequests' = AllRequests
          /\ DOMAIN ListSnapshot' = DOMAIN ListSnapshot
          /\ \A h \in DOMAIN ListSnapshot :
                IF h = reply'.msg.hostname
                THEN /\ ListSnapshot'[h].addr = ListSnapshot[h].addr
                     /\ ListSnapshot'[h].display_name =
                           ListSnapshot[h].display_name
                     /\ ListSnapshot'[h].files = ListSnapshot[h].files
                     /\ ListSnapshot'[h].last_seen = now
                     /\ ListSnapshot'[h].connected_at = now
                ELSE ListSnapshot'[h] = ListSnapshot[h]]_vars

\* host A, first in the registry and publishing f next to B, has just
\* re-registered with the file state the registry held for it
WitnessReRegister ==
    /\ reply.msg.action = "REGISTER"
    /\ reply.status = "OK"
    /\ reply.msg.hostname = "A"
    /\ registryOrder = <<"A", "B">>
    /\ reply.msg.files_metadata = registry["A"].files
    /\ Len(RequestHosts("f")) = 2
    /\ registry["B"].last_seen < now

\* ======================================================================
\* One response per control message
\* ======================================================================
\* C10: every control message the Registry receives on a connection gets
\* exactly one response carrying a status, also when the message is
\* malformed JSON, an empty object, has a data field that is not an object,
\* or has a missing or unknown action.
EveryMessageAnswered ==
    reply.msg.action \notin {"-", "eof"} => reply.status \in Statuses

\* ======================================================================
\* The sweep on its timer: one host that registers, pings and falls silent
\* ======================================================================
SweepFrame == UNCHANGED <<registered, pubHist, wire, downloads, hbVars, dlVars,
                          cliVars>>

NextSweep ==
    \/ \E c \in Conns : Accept(c) /\ UNCHANGED evicted /\ SweepFrame
    \/ \E c \in Conns :
          /\ Register(c, "A", PeerPort, NoName,
                      [fname \in {"f"} |-> Meta("A", TRUE)])
          /\ evicted' = evicted \ {"A"}
          /\ SweepFrame
    \/ \E c \in Conns : Ping(c, "A") /\ UNCHANGED evicted /\ SweepFrame
    \/ \E c \in Conns : Request(c, "f") /\ UNCHANGED evicted /\ SweepFrame
    \/ \E c \in Conns : List(c) /\ UNCHANGED evicted /\ SweepFrame
    \/ ClientRecv /\ UNCHANGED evicted /\ SweepFrame
    \/ SweepSample /\ UNCHANGED evicted /\ SweepFrame
    \/ /\ SweepRemove
       /\ evicted' = evicted \cup ((DOMAIN registry) \ (DOMAIN registry'))
       /\ SweepFrame
    \/ TickUrgent(CLIENT_CLEANUP_INTERVAL) /\ UNCHANGED evicted /\ SweepFrame

SpecSweep == Init /\ [][NextSweep]_vars

\* C4: a registered host whose last_seen is older than the inactivity
\* threshold and that sends nothing more is removed by the sweep within one
\* sweep period, and every LIST and REQUEST answered after the removal omits
\* the host.
EvictedWithinOnePeriod ==
    /\ \A h \in DOMAIN registry :
          now <= registry[h].last_seen + CLIENT_INACTIVE_TIMEOUT
                                       + CLIENT_CLEANUP_INTERVAL
    /\ reply.msg.action = "LIST" =>
          evicted \cap DOMAIN reply.body.registry = {}
    /\ (reply.msg.action = "REQUEST" /\ reply.status # "ERROR") =>
          \A i \in 1..Len(reply.body.hosts) :
             reply.body.hosts[i].hostname \notin evicted

\* host A published f, fell silent, was evicted, and a REQUEST for f was
\* answered afterwards
WitnessRequestAfterEviction ==
    /\ "A" \in evicted
    /\ reply.msg.action = "REQUEST"
    /\ reply.status = "NOTFOUND"
    /\ now > CLIENT_INACTIVE_TIMEOUT

\* ======================================================================
\* The heartbeat controller on its own
\* ======================================================================
NextHeartbeat ==
    \/ GetInterval
    \/ MarkActivity
    \/ StartFileTransfer
    \/ EndFileTransfer
    \/ RecordHeartbeat
    \/ GetStats
    \/ ShouldSendHeartbeat
    \/ \E d \in HbTickSteps : HbTick(d)

SpecHeartbeat == Init /\ [][NextHeartbeat]_vars

\* what get_interval returns when it is called in the current state
IntervalNow ==
    IntervalOf(UpdateState(hbState, state_changes, now - last_activity).state)

\* C8: from Idle, mark_activity makes the state Active and get_interval
\* return the active interval; start_file_transfer makes the state Busy and
\* get_interval return the busy interval; end_file_transfer makes the state
\* Active; and the state becomes Busy only through start_file_transfer.
IdleActiveBusyActive ==
    [][/\ (hbCall'.op = "mark_activity" /\ hbState = "idle") =>
             (hbState' = "active" /\ IntervalNow' = ACTIVE_INTERVAL)
       /\ hbCall'.op = "start_file_transfer" =>
             (hbState' = "busy" /\ IntervalNow' = BUSY_INTERVAL)
       /\ hbCall'.op = "end_file_transfer" => hbState' = "active"
       /\ (hbState # "busy" /\ hbState' = "busy") =>
             hbCall'.op = "start_file_transfer"]_vars

\* the scenario has run from a controller that had become Idle:
\* Idle -> Active -> Busy -> Active, and a get_interval after it returned
\* the active interval
WitnessScenarioRun ==
    /\ state_changes = << <<"active", "idle">>, <<"idle", "active">>,
                          <<"active", "busy">>, <<"busy", "active">> >>
    /\ hbCall.op = "get_interval"
    /\ hbCall.interval = ACTIVE_INTERVAL
    /\ hbState = "active"

\* C9: once Busy, no get_interval, should_send_heartbeat, get_stats,
\* record_heartbeat or mark_activity call and no elapsed idle time changes
\* the state; only end_file_transfer leaves Busy, and get_interval returns
\* the busy interval as long as the state is Busy.
BusyUntilEndTransfer ==
    [][/\ (hbState = "busy" /\ hbCall'.op # "end_file_transfer") =>
             hbState' = "busy"
       /\ hbState' = "busy" => IntervalNow' = BUSY_INTERVAL
       /\ (hbState = "busy" /\ hbCall'.op \in {"get_interval", "get_stats",
                                              "should_send_heartbeat"}) =>
             hbCall'.interval = BUSY_INTERVAL]_vars

\* Busy with more than the idle threshold of idle time, and get_interval
\* was just called
WitnessBusyPastThreshold ==
    /\ hbState = "busy"
    /\ now - last_activity > IDLE_THRESHOLD
    /\ hbCall.op = "get_interval"
    /\ hbCall.interval = BUSY_INTERVAL

\* ======================================================================
\* One client downloading from a peer
\* ======================================================================
Sizes == 0..MaxSize

NextFetch ==
    \/ \E fid \in FetchIds, rs \in Sizes, hd \in PeerHeaders :
          \E sz \in (IF hd = "LENGTH" THEN Sizes ELSE {0}) :
             \E body \in (IF hd = "LENGTH" THEN 0..sz ELSE {0}) :
                FetchStart(fid, IF fid = "known" THEN rs ELSE 0, hd, sz, body)
    \/ \E rest \in Sizes : RecvHeader(rest)
    \/ \E n \in 1..MaxSize : RecvBody(n)
    \/ FinishBody
    \/ \E n \in 1..MaxSize : RecvLegacy(n)
    \/ FinishLegacy
    \/ \E ok \in BOOLEAN : PostProcess(ok)
    \/ RecvTimeout
    \/ FetchTaskEnd

SpecFetch == Init /\ [][NextFetch]_vars

\* C5: for a peer download of declared size S, a download reported
\* successful (session Completed, or a path returned) has received exactly S
\* bytes and has downloaded_size = S; and when the peer closes before S body
\* bytes were received the download is not reported Completed and returns no
\* path.
SuccessMeansWholeFile ==
    /\ sess.status = "completed" =>
          (dl.data_len = peer.size /\ sess.downloaded_size = peer.size)
    /\ dl.result = "path" =>
          /\ dl.data_len = peer.size
          /\ sess.status # "none" => sess.downloaded_size = peer.size
    /\ (dl.pc \in {"returned", "done"} /\ peer.header = "LENGTH"
        /\ peer.body < peer.size) =>
          (sess.status # "completed" /\ dl.result # "path")

\* C6: when the peer answers LENGTH S and then exactly S body bytes, and
\* nothing else goes wrong on the receiver, the FetchSession ends Completed
\* with downloaded_size = S, however the stream is split across reads.
WholeStreamCompletes ==
    (/\ dl.pc = "done"
     /\ sess.status # "none"
     /\ peer.header = "LENGTH"
     /\ peer.body = peer.size
     /\ sess.total_size = peer.size
     /\ ~dl.fault) =>
        (sess.status = "completed" /\ sess.downloaded_size = peer.size)

\* ======================================================================
\* One FetchSession and its callers
\* ======================================================================
NextSession ==
    \/ \E t \in Sizes : SessNew(t)
    \/ \E opens \in BOOLEAN : SessStart(opens)
    \/ \E n \in 1..MaxSize : SessWriteChunk(n)
    \/ SessComplete
    \/ \E e \in {"P2P fetch failed"} : SessFail(e)

SpecSession == Init /\ [][NextSession]_vars

\* C11: complete() sets Completed and returns True only if downloaded_size
\* = total_size at the time of the call; when they differ (fewer or more
\* bytes) it sets Failed, records a size-mismatch message and returns False;
\* either way the destination handle is closed afterwards.
CompleteChecksSize ==
    [][sessCall'.op = "complete" =>
          /\ sess'.file_handle = FALSE
          /\ IF sess.downloaded_size = sess.total_size
             THEN sess'.status = "completed" /\ sessCall'.ret = "True"
             ELSE /\ sess'.status = "failed"
                  /\ sess'.error_message = "Size mismatch"
                  /\ sessCall'.ret = "False"]_vars

\* complete() was called on an open session holding more bytes than its
\* total_size
WitnessCompleteTooMany ==
    /\ sessCall.op = "complete"
    /\ sessCall.ret = "False"
    /\ sess.downloaded_size > sess.total_size
    /\ sess.status = "failed"
    /\ ~sess.file_handle

\* C12: Completed and Failed are terminal: once the status is Completed or
\* Failed no later start, write_chunk, complete or fail changes it.
TerminalStatusStays ==
    [][sess.status \in {"completed", "failed"} =>
          sess'.status = sess.status]_vars

\* ======================================================================
\* A client that shares file p under the name f, and its peer server
\* ======================================================================
NextPeer ==
    \/ \E resp \in {"ACK"} : CliPublish("p", "f", TRUE, resp)
    \/ \E resp \in {"ACK"} : CliUnpublish("f", resp)
    \/ CliAddLocalFile("p")
    \/ \E len \in 0..MaxSize : DiskWrite("p", len)
    \/ \E kind \in DiskKinds : DiskReplace("p", kind, 0)
    \/ \E fname \in Files : ServeGet(fname)
    \/ ServeOther
    \/ ServeLength
    \/ ServeOpen
    \/ ServeRead
    \/ CliStop

SpecPeer == Init /\ [][NextPeer]_vars

BodyIsDeclaredLength ==
    (serve.pc = "closed" /\ serve.header = "LENGTH" /\ ~serve.aborted) =>
        (serve.sent = serve.size /\ serve.errors = 0)

\* ======================================================================
\* How hosts leave the registry, and what refreshes last_seen
\* ======================================================================
\* the step is handle_conn handling one message (or the end of its loop)
HandlerStep == reply = NoReply /\ reply' # NoReply
\* the step is the removal pass of cleanup_thread
SweepStep == sweepPc = "sampled" /\ sweepPc' = "sleep"

\* C15: a host record leaves the registry only through an UNREGISTER naming
\* the host or through the sweep finding its last_seen older than the
\* inactivity threshold; no other action, protocol error or close removes it.
LeavesByUnregisterOrSweep ==
    [][\A h \in (DOMAIN registry) \ (DOMAIN registry') :
          \/ /\ HandlerStep
             /\ reply'.msg.action = "UNREGISTER"
             /\ reply'.msg.hostname = h
          \/ /\ SweepStep
             /\ now - registry[h].last_seen > CLIENT_INACTIVE_TIMEOUT]_vars

\* host A is gone while B stays, and the last message was UNREGISTER A
WitnessUnregisteredOne ==
    /\ reply.msg.action = "UNREGISTER"
    /\ reply.msg.hostname = "A"
    /\ reply.status = "OK"
    /\ DOMAIN registry = {"B"}
    /\ connHost[reply.conn] = "A"

\* the host a message on a connection comes from: the hostname the message
\* names (REGISTER, PUBLISH, UNPUBLISH) or the one the connection named last
Sender == connHost'[reply'.conn]

\* C16: every control message a registered host sends (REGISTER, PUBLISH,
\* UNPUBLISH, REQUEST, DISCOVER, LIST, PING) refreshes its last_seen
\* (stated for the messages the Registry does not answer with ERROR).
EveryMessageRefreshes ==
    [][(/\ HandlerStep
        /\ reply'.msg.action \in {"REGISTER", "PUBLISH", "UNPUBLISH",
                                  "REQUEST", "DISCOVER", "LIST", "PING"}
        /\ reply'.status # "ERROR"
        /\ Sender \in DOMAIN registry
        /\ Sender \in DOMAIN registry') =>
            registry'[Sender].last_seen = now]_vars

\* C18: PING answers ALIVE exactly when the target is in the registry and
\* DEAD otherwise, and it refreshes the last_seen of the connection's own
\* host exactly when that host is registered (nothing else changes).
PingReportsMembership ==
    [][(HandlerStep /\ reply'.msg.action = "PING") =>
          LET own == connHost[reply'.conn]
          IN  /\ reply'.status = IF reply'.msg.hostname \in DOMAIN registry
                                 THEN "ALIVE" ELSE "DEAD"
              /\ registry' = IF own \in DOMAIN registry
                             THEN [registry EXCEPT ![own].last_seen = now]
                             ELSE registry]_vars

\* registered host A pinged B, long after both were last seen: ALIVE, and
\* only A's last_seen moved
WitnessPingRefreshesCaller ==
    /\ reply.msg.action = "PING"
    /\ reply.msg.hostname = "B"
    /\ reply.status = "ALIVE"
    /\ connHost[reply.conn] = "A"
    /\ "A" \in DOMAIN registry
    /\ registry["A"].last_seen = now
    /\ registry["B"].last_seen < now

\* C19: UNPUBLISH(hostname, fname) on an existing entry sets is_published
\* to false and published_at to null and keeps the entry with its size and
\* modified; when the host is not registered or has no entry for fname it
\* answers ERROR and leaves the registry unchanged.
UnpublishKeepsEntry ==
    [][(/\ HandlerStep
        /\ reply'.msg.action = "UNPUBLISH"
        /\ reply'.msg.hostname # NoName
        /\ reply'.msg.fname # NoName) =>
          LET h == reply'.msg.hostname
              f == reply'.msg.fname
          IN  IF h \in DOMAIN registry /\ f \in DOMAIN registry[h].files
              THEN /\ reply'.status = "ACK"
                   /\ h \in DOMAIN registry'
                   /\ f \in DOMAIN registry'[h].files
                   /\ registry'[h].files[f] =
                         [registry[h].files[f] EXCEPT
                             !.is_published = FALSE,
                             !.published_at = NoTime]
                   /\ DOMAIN registry'[h].files = DOMAIN registry[h].files
              ELSE /\ reply'.status = "ERROR"
                   /\ registry' = registry]_vars

\* a published entry of A was unpublished and is still there with its size
WitnessUnpublishedEntry ==
    /\ reply.msg.action = "UNPUBLISH"
    /\ reply.status = "ACK"
    /\ reply.msg.hostname = "A"
    /\ reply.msg.fname = "f"
    /\ "A" \in DOMAIN registry
    /\ {"f", "g"} \subseteq DOMAIN registry["A"].files
    /\ registry["A"].files["f"].size = FileSize("A")
    /\ ~registry["A"].files["f"].is_published
    /\ registry["A"].files["f"].published_at = NoTime
    /\ registry["A"].files["g"].is_published

\* ======================================================================
\* A live client: host A, its control connection, its heartbeat thread and
\* the sweep of the Registry
\* ======================================================================
Central == 1
Self == "A"

LiveFrame == UNCHANGED <<histVars, dlVars, local_files, published_files,
                         meta_files, state_file, disk, running, serve,
                         cliCall>>

\* Client.__init__: connect, REGISTER on the control connection
LiveConnect ==
    /\ hbThread.pc = "off"
    /\ Accept(Central)
    /\ UNCHANGED hbThread /\ UNCHANGED hbVars /\ LiveFrame

LiveRegister ==
    /\ hbThread.pc = "off"
    /\ connHost[Central] = NoName
    /\ Register(Central, Self, PeerPort, Self, EmptyDict)
    /\ UNCHANGED hbThread /\ UNCHANGED hbVars /\ LiveFrame

\* Client.__init__: the answer to REGISTER is read, the heartbeat thread starts
LiveStartThread ==
    /\ hbThread.pc = "off"
    /\ reply.msg.action = "REGISTER"
    /\ ClientRecv
    /\ hbThread' = ThreadAt("loop", 0)
    /\ UNCHANGED hbVars /\ LiveFrame

\* heartbeat_thread: interval = get_interval(); time.sleep(interval)
ThreadGetInterval ==
    LET r == UpdateState(hbState, state_changes, now - last_activity)
    IN  /\ hbThread.pc = "loop"
        /\ running
        /\ LogFits(r)
        /\ hbState' = r.state
        /\ state_changes' = r.log
        /\ hbCall' = Call("get_interval", IntervalOf(r.state), FALSE, "")
        /\ hbThread' = ThreadAt("sleep", now + IntervalOf(r.state))
        /\ UNCHANGED <<last_activity, last_heartbeat, total_heartbeats>>
        /\ UNCHANGED regVars /\ LiveFrame

\* heartbeat_thread: the sleep is over, PING is sent under central_lock
ThreadPing ==
    /\ hbThread.pc = "sleep"
    /\ now >= hbThread.wake
    /\ running
    /\ Ping(Central, Self)
    /\ hbThread' = ThreadAt("pinged", 0)
    /\ UNCHANGED hbVars /\ LiveFrame

\* heartbeat_thread: recv_json, record_heartbeat (the counter is capped)
ThreadRecv ==
    /\ hbThread.pc = "pinged"
    /\ ClientRecv
    /\ last_heartbeat' = now
    /\ total_heartbeats' = Min(total_heartbeats + 1, MaxHeartbeats)
    /\ hbCall' = Call("record_heartbeat", 0, FALSE, "")
    /\ hbThread' = ThreadAt("loop", 0)
    /\ UNCHANGED <<hbState, last_activity, state_changes>>
    /\ LiveFrame

\* other work of the client on its control connection: Client.request marks
\* the activity and sends REQUEST under central_lock
LiveRequest ==
    /\ hbThread.pc = "sleep"
    /\ HbMarkActivity
    /\ Request(Central, "f")
    /\ UNCHANGED hbThread /\ LiveFrame

LiveRecv ==
    /\ hbThread.pc = "sleep"
    /\ ClientRecv
    /\ UNCHANGED hbThread /\ UNCHANGED hbVars /\ LiveFrame

\* time passes while both threads sleep; each wakes up when its sleep ends
LiveTick(d) ==
    /\ reply = NoReply
    /\ sweepPc = "sleep"
    /\ hbThread.pc = "sleep"
    /\ now + d <= sweepWake
    /\ now + d <= hbThread.wake
    /\ now + d <= MaxLiveTime
    /\ now' = now + d
    /\ reply' = NoReply
    /\ UNCHANGED <<registry, registryOrder, connOpen, connHost,
                   sweepPc, sweepWake, sweepNow>>
    /\ UNCHANGED hbThread /\ UNCHANGED hbVars /\ LiveFrame

NextLive ==
    \/ LiveConnect
    \/ LiveRegister
    \/ LiveStartThread
    \/ ThreadGetInterval
    \/ ThreadPing
    \/ ThreadRecv
    \/ LiveRequest
    \/ LiveRecv
    \/ hbThread.pc = "sleep" /\ StartFileTransfer
    \/ hbThread.pc = "sleep" /\ EndFileTransfer
    \/ SweepSample /\ UNCHANGED hbThread /\ UNCHANGED hbVars /\ LiveFrame
    \/ SweepRemove /\ UNCHANGED hbThread /\ UNCHANGED hbVars /\ LiveFrame
    \/ LiveTick(CLIENT_CLEANUP_INTERVAL)

SpecLive == Init /\ [][NextLive]_vars

\* C17: the sweep never evicts a live client: once host A has registered on
\* its control connection and its heartbeat thread sends a PING after each
\* interval its controller chooses, A stays in the registry through every
\* sweep (sweep period 30 s, threshold 1200 s).
LiveClientStays ==
    (hbThread.pc # "off" /\ connOpen[Central] /\ running) =>
        Self \in DOMAIN registry

\* A registered at time 0; more than the threshold later, sweeps have run
\* and A, whose heartbeats went out every IDLE_INTERVAL, is still registered
WitnessIdleClientKept ==
    /\ hbThread.pc = "sleep"
    /\ hbState = "idle"
    /\ Self \in DOMAIN registry
    /\ registry[Self].connected_at = 0
    /\ now > CLIENT_INACTIVE_TIMEOUT + IDLE_INTERVAL
    /\ sweepWake > now

\* ======================================================================
\* The file sets of one client
\* ======================================================================
NextClient ==
    \/ \E local_path \in Paths, overwrite \in BOOLEAN,
          resp \in {"ACK", "ERROR"} :
             CliPublish(local_path, Basename(local_path), overwrite, resp)
    \/ \E fname \in Files, resp \in {"ACK", "ERROR"} : CliUnpublish(fname, resp)
    \/ \E filepath \in Paths : CliAddLocalFile(filepath)
    \/ CliRestart
    \/ \E fname \in Files : MetaDelete(fname)
    \/ \E kind \in {"file", "missing"} : DiskReplace("p", kind, 0)
    \/ FetchStart("none", 0, "LENGTH", 1, 1)
    \/ RecvHeader(1)
    \/ FinishLegacy
    \/ \E ok \in BOOLEAN : PostProcess(ok)
    \/ FetchTaskEnd

SpecClient == Init /\ [][NextClient]_vars

\* C20: after any sequence of publish, unpublish, add_local_file, state
\* restore and completed downloads, every filename in published_files is in
\* local_files, and unpublishing a published file removes it from
\* published_files and leaves it in local_files.
PublishedWithinLocal ==
    /\ DOMAIN published_files \subseteq DOMAIN local_files
    /\ (cliCall.op = "unpublish" /\ cliCall.found) =>
          /\ cliCall.fname \notin DOMAIN published_files
          /\ cliCall.fname \in DOMAIN local_files

\* f was published and then unpublished; g, downloaded, is local too
WitnessUnpublishedStaysLocal ==
    /\ cliCall.op = "unpublish" /\ cliCall.fname = "f" /\ cliCall.found
    /\ DOMAIN published_files = {}
    /\ DOMAIN local_files = {"f", "g"}
    /\ ~local_files["f"].is_published

\* ======================================================================
\* Atomicity of the actions of the Registry
\* ======================================================================
\* C21: every access to the registry happens under registry_lock and each
\* action's mutation is atomic: whenever the lock is free (REQUEST, DISCOVER
\* and LIST read the registry only then), a record a REGISTER stored holds
\* the whole snapshot of that REGISTER.
RegisterSeedsWholeSnapshot ==
    [][(/\ HandlerStep
        /\ reply'.msg.action = "REGISTER"
        /\ registry' # registry) =>
          registry'[reply'.msg.hostname].files =
              SeedFiles(reply'.msg.files_metadata)]_vars

\* C22: a protocol error does not end the connection: a malformed message
\* and an unknown action are answered ERROR, the registry is unchanged and
\* the connection stays open for the next message.
ProtocolErrorKeepsConnection ==
    [][(HandlerStep /\ reply'.msg.action \in {"malformed", "UNKNOWN"}) =>
          /\ reply'.status = "ERROR"
          /\ registry' = registry
          /\ connOpen'[reply'.conn]]_vars

ReRegisterReplacesRecord ==
    [][(/\ HandlerStep
        /\ reply'.msg.action = "REGISTER"
        /\ reply'.status = "OK"
        /\ reply'.msg.hostname \in DOMAIN registry) =>
          LET h == reply'.msg.hostname
              snap == reply'.msg.files_metadata
          IN  \A f \in Files :
                 LET hosts == RequestHosts(f)'
                     answered == \E i \in 1..Len(hosts) : hosts[i].hostname = h
                 IN  /\ f \notin DOMAIN snap =>
                           /\ ~answered
                           /\ f \notin DOMAIN PublishedFiles(registry'[h])
                           /\ f \notin DOMAIN ListSnapshot'[h].files
                     /\ (/\ f \in DOMAIN snap
                         /\ Get(snap[f], "is_published", FALSE)) => answered]_vars

\* A, inserted before B, has a record younger than B's: it registered again,
\* with f published in its snapshot and no g
WitnessReRegisterDropsFile ==
    /\ reply.msg.action = "REGISTER"
    /\ reply.status = "OK"
    /\ reply.msg.hostname = "A"
    /\ registryOrder = <<"A", "B">>
    /\ registry["A"].connected_at > registry["B"].connected_at
    /\ DOMAIN registry["A"].files = {"f"}
    /\ registry["A"].files["f"].is_published
    /\ Holders("f") = {"A", "B"}

\* C25: in every reachable state the port stored in a record's address is a
\* peer-listen port a REGISTER supplied (never the source port of a control
\* connection), for records REGISTER created and for records PUBLISH created.
AddressIsPeerListenPort ==
    \A h \in DOMAIN registry : registry[h].addr[2] \in PortArgs \ {0}

\* ======================================================================
\* A transfer the serving client aborts: PeerServer.handle_peer on the
\* serving client, download_from_peer on the receiver.  The receiver reads
\* the bytes the sender wrote before it closed; the two meet only in that
\* stream.
\* ======================================================================
\* file sizes of the aborted transfer: one byte, and one ERROR line and a
\* byte, more than a chunk; and two chunks
AbortSizes == {CHUNK_SIZE + 1, CHUNK_SIZE + ErrorLineLen + 1, 2 * CHUNK_SIZE}

\* the bytes handle_peer wrote after the header line
StreamLen == serve.sent + (IF serve.aborted THEN ErrorLineLen ELSE 0)

NextAbort ==
    \/ CliPublish("p", "f", TRUE, "ACK")
    \/ \E len \in AbortSizes : dl.pc = "idle" /\ DiskWrite("p", len)
    \/ dl.pc = "idle" /\ ServeGet("f")
    \/ ServeLength
    \/ ServeOpen
    \/ ServeRead
    \/ CliStop
    \/ \E fetch_id \in {"none", "known"} :
          /\ serve.pc = "closed"
          /\ serve.header = "LENGTH"
          /\ FetchStart(fetch_id, serve.size, "LENGTH", serve.size, StreamLen)
    \/ RecvHeader(0)
    \/ RecvBody(Min(dl.total_size - dl.data_len, peer.body - dl.data_len))
    \/ FinishBody
    \/ RecvLegacy(Min(dl.total_size - dl.data_len, peer.body - dl.data_len))
    \/ FinishLegacy
    \/ PostProcess(TRUE)
    \/ FetchTaskEnd

SpecAbort == Init /\ [][NextAbort]_vars

\* C26: when the serving client shuts down while a transfer is in progress,
\* the sender stops within one chunk and closes, and the receiver's download
\* ends Failed and is never reported Completed, wherever in the stream the
\* abort happens.
AbortedTransferFails ==
    (serve.aborted /\ serve.header = "LENGTH" /\ serve.sent < serve.size) =>
        /\ sess.status # "completed"
        /\ dl.result # "path"
        /\ dl.pc # "post"

\* C27: every peer connection that sent one complete command line has
\* received exactly one header line, LENGTH <n> or ERROR <reason>, when the
\* server closes it; also when the line is not GET <filename>.
OneHeaderLinePerCommand ==
    serve.pc = "closed" =>
        /\ serve.header \in {"LENGTH", "ERROR"}
        /\ serve.header = "ERROR" => serve.errors = 1

\* ======================================================================
\* One control connection as a byte stream (server.py recv_json)
\* ======================================================================
WireMsgs ==
    {[action |-> "LIST", hostname |-> NoName, fname |-> NoName],
     [action |-> "REQUEST", hostname |-> NoName, fname |-> "f"],
     [action |-> "REGISTER", hostname |-> "A", fname |-> NoName]}

WireFrame == UNCHANGED <<registered, pubHist, evicted, downloads, hbVars,
                         dlVars, cliVars>>

\* the client writes a message without waiting for the earlier responses
WireSend(msg) ==
    /\ connOpen[Central]
    /\ Len(wire.sent) < MaxSent
    /\ wire' = [wire EXCEPT !.inflight = Append(@, msg),
                            !.sent = Append(@, msg)]
    /\ UNCHANGED regVars
    /\ WireFrame

\* recv_json: conn.recv returns the first n messages that are in the socket;
\* the line up to the first newline is decoded and handled, `rest` is a
\* local that is dropped when recv_json returns
WireRecv(n) ==
    /\ wire.inflight # <<>>
    /\ n \in 1..Len(wire.inflight)
    /\ LET msg == Head(wire.inflight)
       IN  /\ \/ msg.action = "LIST" /\ List(Central)
              \/ msg.action = "REQUEST" /\ Request(Central, msg.fname)
              \/ /\ msg.action = "REGISTER"
                 /\ Register(Central, msg.hostname, PeerPort, NoName, EmptyDict)
           /\ wire' = [wire EXCEPT
                         !.inflight = SubSeq(@, n + 1, Len(@)),
                         !.handled = Append(@, msg)]
    /\ WireFrame

NextWire ==
    \/ Accept(Central) /\ UNCHANGED wire /\ WireFrame
    \/ \E msg \in WireMsgs : WireSend(msg)
    \/ \E n \in 1..MaxSent : WireRecv(n)
    \/ ClientRecv /\ UNCHANGED wire /\ WireFrame

SpecWire == Init /\ [][NextWire]_vars

\* C28: on one control connection the Registry handles every message the
\* client sent, once and in the order sent, also when several messages
\* arrive in one socket read: what was handled is a prefix of what was sent,
\* and all of it once nothing is left in the socket.
EveryMessageHandledInOrder ==
    /\ Len(wire.handled) <= Len(wire.sent)
    /\ wire.handled = SubSeq(wire.sent, 1, Len(wire.handled))
    /\ wire.inflight = <<>> => wire.handled = wire.sent

\* ======================================================================
\* Download threads of one client and its heartbeat controller
\* (client.py fetch / client_api.py fetch_task: one thread per download)
\* ======================================================================
DownloadIds == 1..MaxDownloads

OverlapFrame == UNCHANGED <<regVars, registered, pubHist, evicted, wire,
                            dlVars, cliVars>>

\* a download thread enters download_from_peer: start_file_transfer
DownloadBegin(d) ==
    /\ d \notin downloads
    /\ HbStartTransfer
    /\ downloads' = downloads \cup {d}
    /\ OverlapFrame

\* a download thread leaves download_from_peer on any of its ways out:
\* end_file_transfer
DownloadEnd(d) ==
    /\ d \in downloads
    /\ HbEndTransfer
    /\ downloads' = downloads \ {d}
    /\ OverlapFrame

NextOverlap ==
    \/ \E d \in DownloadIds : DownloadBegin(d)
    \/ \E d \in DownloadIds : DownloadEnd(d)
    \/ GetInterval
    \/ \E d \in HbTickSteps : HbTick(d)

SpecOverlap == Init /\ [][NextOverlap]_vars

\* C29: while at least one download is in progress, the controller is in
\* Busy and a get_interval just answered returned the busy interval, also
\* when downloads overlap and one of them ends before the others.
BusyWhileDownloading ==
    downloads # {} =>
        /\ hbState = "busy"
        /\ hbCall.op = "get_interval" => hbCall.interval = BUSY_INTERVAL

\* C30: after the controller enters Busy, the heartbeat thread sends its
\* next PING within the busy interval, whatever the state was when the thread
\* computed its sleep: a sleeping thread of a Busy client wakes at most
\* BUSY_INTERVAL after the last activity (start_file_transfer marks one).
BusyPingsWithinBusyInterval ==
    (hbState = "busy" /\ hbThread.pc = "sleep") =>
        hbThread.wake <= last_activity + BUSY_INTERVAL

\* C31: for a controller not in Busy, get_interval returns the idle interval
\* and leaves the state Idle exactly when the time since the last activity
\* is at least the idle threshold; below it an Active controller stays
\* Active and get_interval returns the active interval.
IdleFromThreshold ==
    (hbCall.op = "get_interval" /\ hbState # "busy") =>
        /\ (hbState = "idle" /\ hbCall.interval = IDLE_INTERVAL)
               <=> now - last_activity >= IDLE_THRESHOLD
        /\ now - last_activity < IDLE_THRESHOLD =>
               (hbState = "active" /\ hbCall.interval = ACTIVE_INTERVAL)

\* C32: write_chunk is accepted only while the session is started and not
\* yet completed or failed: before start and after complete or fail it
\* raises and leaves downloaded_size and status as they were; an accepted
\* call adds exactly the length of the chunk to downloaded_size.
WriteChunkOnlyWhileDownloading ==
    [][sessCall'.op = "write_chunk" =>
          /\ sess.status # "downloading" =>
                /\ sessCall'.ret = "raise"
                /\ sess'.downloaded_size = sess.downloaded_size
                /\ sess'.status = sess.status
          /\ sessCall'.ret # "raise" =>
                /\ sess.status = "downloading"
                /\ sess'.downloaded_size =
                       sess.downloaded_size + sessCall'.len
                /\ sess'.status = sess.status]_vars

\* a chunk was refused after complete() closed a session that had taken bytes
WitnessChunkRefusedAfterComplete ==
    /\ sessCall.op = "write_chunk"
    /\ sessCall.ret = "raise"
    /\ sess.status = "completed"
    /\ sess.downloaded_size > 0

\* C33: a control connection that closes or drops, with or without a
\* protocol error before it, leaves the registry as it was before the close
\* or the erroneous message: every host keeps its record, files and
\* last_seen.
CloseLeavesRegistry ==
    [][\A c \in Conns :
          (connOpen[c] /\ ~connOpen'[c]) =>
              /\ registry' = registry
              /\ registryOrder' = registryOrder]_vars

\* C34: when Client.publish fails because the Registry did not answer ACK,
\* local_files and published_files (and with them the is_published flag of
\* the file) are what they were before the call; when Client.unpublish fails
\* for that reason, the file is still in published_files.
FailedCallChangesNothing ==
    [][(UNCHANGED dlVars /\ cliCall'.resp = "ERROR") =>
          /\ cliCall'.op = "publish" =>
                /\ local_files' = local_files
                /\ published_files' = published_files
          /\ cliCall'.op = "unpublish" =>
                cliCall'.fname \in DOMAIN published_files']_vars

\* C35: on the client a filename is in published_files exactly when
\* local_files holds it with is_published true, and both maps hold the same
\* metadata for it, so the REGISTER snapshot (built from local_files) marks
\* as published exactly the files the peer server serves (published_files).
PublishedIffLocalFlag ==
    \A fname \in Files :
        /\ fname \in DOMAIN published_files <=>
               (fname \in DOMAIN local_files /\ local_files[fname].is_published)
        /\ fname \in DOMAIN published_files =>
               published_files[fname] = local_files[fname]

\* C36: every invocation of download_from_peer calls end_file_transfer
\* exactly once before it returns, on every path: none while it runs, one
\* when it has returned, and with no other transfer in progress the
\* controller is not in Busy after the return.
EndTransferOncePerDownload ==
    /\ dl.pc \in {"header", "body", "legacy", "post"} =>
           (dl.ends = 0 /\ hbState = "busy")
    /\ dl.pc \in {"returned", "done"} =>
           (dl.ends = 1 /\ hbState # "busy")

\* a download failed on the size check of the legacy path and has returned
WitnessShortReadEndsTransfer ==
    /\ dl.pc = "returned"
    /\ dl.result = "None"
    /\ ~dl.fault
    /\ sess.status = "none"
    /\ peer.header = "LENGTH"
    /\ dl.data_len < dl.total_size
    /\ hbState = "active"

\* ======================================================================
\* The control connection of host A: every REGISTER on it is for A
\* (server.py handle_conn; `registered` holds the hostnames that registered
\* on the connection)
\* ======================================================================
OwnerFrame == UNCHANGED <<pubHist, evicted, wire, downloads, hbVars, dlVars,
                          cliVars>>

NextOwner ==
    \/ Accept(Central) /\ UNCHANGED registered /\ OwnerFrame
    \/ \E snap \in Snapshots(Self) :
          /\ Register(Central, Self, PeerPort, NoName, snap)
          /\ registered' = registered \cup {Self}
          /\ OwnerFrame
    \/ \E h \in Hosts :
          \E f \in Catalog(h) :
             /\ Publish(Central, h, f, FileSize(h), FileMTime)
             /\ UNCHANGED registered /\ OwnerFrame
    \/ \E h \in Hosts, f \in Files :
          Unpublish(Central, h, f) /\ UNCHANGED registered /\ OwnerFrame
    \/ \E h \in Hosts : Ping(Central, h) /\ UNCHANGED registered /\ OwnerFrame
    \/ Request(Central, "f") /\ UNCHANGED registered /\ OwnerFrame
    \/ \E h \in Hosts :
          Unregister(Central, h) /\ UNCHANGED registered /\ OwnerFrame
    \/ ClientRecv /\ UNCHANGED registered /\ OwnerFrame
    \/ \E d \in TickSteps : Tick(d) /\ UNCHANGED registered /\ OwnerFrame

SpecOwner == Init /\ [][NextOwner]_vars

\* C37: a PUBLISH, UNPUBLISH, UNREGISTER or PING on a connection whose only
\* successful REGISTER was for A leaves the record of every other hostname
\* as it was: it is not created, modified, refreshed or deleted.
OnlyOwnRecordTouched ==
    [][(/\ HandlerStep
        /\ registered = {Self}
        /\ reply'.msg.action \in {"PUBLISH", "UNPUBLISH", "UNREGISTER",
                                  "PING"}) =>
          \A h \in Hosts \ {Self} :
              /\ h \in DOMAIN registry <=> h \in DOMAIN registry'
              /\ h \in DOMAIN registry => registry'[h] = registry[h]]_vars

\* C38: PING adds no host record, removes none and changes no host's files
\* (last_seen of the caller is all it writes); a host the sweep evicted stays
\* out of the registry, and so out of LIST and REQUEST, whatever PINGs it
\* sends on its still open connection, until it sends REGISTER or PUBLISH.
PingNeverRestores ==
    /\ [][(HandlerStep /\ reply'.msg.action = "PING") =>
             /\ DOMAIN registry' = DOMAIN registry
             /\ registryOrder' = registryOrder
             /\ \A h \in DOMAIN registry :
                   [registry'[h] EXCEPT !.last_seen = 0] =
                       [registry[h] EXCEPT !.last_seen = 0]]_vars
    /\ [](/\ evicted \cap DOMAIN registry = {}
          /\ reply.msg.action = "LIST" =>
                evicted \cap DOMAIN reply.body.registry = {})

\* the evicted host A pinged itself on its open connection and was told DEAD
WitnessPingAfterEviction ==
    /\ "A" \in evicted
    /\ reply.msg.action = "PING"
    /\ reply.msg.hostname = "A"
    /\ reply.status = "DEAD"
    /\ connHost[reply.conn] = "A"
    /\ "A" \notin DOMAIN registry

\* Client.request / fetch_file: picked = hosts[0] of the answer to REQUEST
Picked == reply.body.hosts[1]

\* C39: a client that requests a file never opens a transfer to its own
\* peer listener: the source picked from the answer to a REQUEST sent on the
\* connection of host A is a host other than A.
NeverPicksItself ==
    (/\ reply.msg.action = "REQUEST"
     /\ reply.status = "FOUND"
     /\ registered = {Self}) =>
        Picked.hostname # Self

\* ======================================================================
\* The sweep against a handler that refreshes last_seen between the sweep's
\* time.time() and its `with registry_lock` (server.py cleanup_thread):
\* hosts register at time 0 and send their later messages in that window
\* ======================================================================
RaceFrame == UNCHANGED <<registered, pubHist, wire, downloads, hbVars, dlVars,
                         cliVars>>

NextRace ==
    \/ Accept(Central) /\ UNCHANGED evicted /\ RaceFrame
    \/ \E h \in Hosts :
          /\ now = 0
          /\ Register(Central, h, PeerPort, NoName, EmptyDict)
          /\ UNCHANGED evicted /\ RaceFrame
    \/ /\ sweepPc = "sampled"
       /\ Ping(Central, Self)
       /\ UNCHANGED evicted /\ RaceFrame
    \/ \E h \in Hosts :
          /\ sweepPc = "sampled"
          /\ Publish(Central, h, "f", FileSize(h), FileMTime)
          /\ evicted' = evicted \ {h}
          /\ RaceFrame
    \/ ClientRecv /\ UNCHANGED evicted /\ RaceFrame
    \/ SweepSample /\ UNCHANGED evicted /\ RaceFrame
    \/ /\ SweepRemove
       /\ evicted' = evicted \cup ((DOMAIN registry) \ (DOMAIN registry'))
       /\ RaceFrame
    \/ \E d \in TickSteps : Tick(d) /\ UNCHANGED evicted /\ RaceFrame

SpecRace == Init /\ [][NextRace]_vars

\* C40: the sweep's removal pass removes only hosts whose last_seen is
\* older than the inactivity threshold at the moment of the pass, and it
\* keeps every host that refreshed its last_seen after the sweep sampled
\* the time.
SweepKeepsRefreshedHost ==
    [][SweepStep =>
          \A h \in DOMAIN registry :
              /\ h \notin DOMAIN registry' =>
                    now - registry[h].last_seen > CLIENT_INACTIVE_TIMEOUT
              /\ registry[h].last_seen >= sweepNow =>
                    h \in DOMAIN registry']_vars

\* A and B registered at time 0 and were both stale when the sweep sampled
\* the time; A refreshed before the removal pass and was kept, B was removed
WitnessRefreshedInWindowKept ==
    /\ sweepPc = "sleep"
    /\ evicted = {"B"}
    /\ Self \in DOMAIN registry
    /\ registry[Self].connected_at = 0
    /\ registry[Self].last_seen > CLIENT_INACTIVE_TIMEOUT
    /\ sweepWake = registry[Self].last_seen + CLIENT_CLEANUP_INTERVAL

====
